---- MODULE Spec2Model ----
(***************************************************************************)
(* Field discovery in OpenAPI documents: the Schema Field Finder           *)
(* (findFieldsInSchema), the Operation Scanner (extractResponseFieldPaths, *)
(* extractRequestFieldPaths) and the Path Grouper (extractGroupPaths) of   *)
(* src/src/generate-types.ts with the main function that runs them, the    *)
(* $ref-resolving finder and the argument parsing of                       *)
(* src/src/simple-generate-types.ts, and the finder of the YAML variants.  *)
(*                                                                         *)
(* The functions are pure; the state of the model is the most recent call  *)
(* (its arguments and what it returned or that it raised), and, for the    *)
(* recursive finder, the call stack of a walk executed one call at a time. *)
(***************************************************************************)
EXTENDS Integers, Sequences, FiniteSets, TLC

VARIABLES
    call,        \* the most recent call: [op, ...arguments]
    ret,         \* what it returned: [raised, ...result]
    stack        \* the frames of a findFieldsInSchema call executed step by step:
                 \* [schema, depth, next (position in the body), foundFields]

vars == <<call, ret, stack>>

(***************************************************************************)
(* JavaScript values.  An object keeps its own keys in enumeration order   *)
(* (keys) with the values beside them (vals).  A "shared" value is a       *)
(* reference to an object of Heap: object identity, which is how a         *)
(* dereferenced document comes to hold cyclic schemas.                     *)
(***************************************************************************)
Undefined == [k |-> "undefined"]
Null == [k |-> "null"]
Bool(b) == [k |-> "boolean", b |-> b]
Str(s) == [k |-> "string", s |-> s]
Num(n) == [k |-> "number", n |-> n]
Arr(items) == [k |-> "array", items |-> items]
Obj(keys, vals) == [k |-> "object", keys |-> keys, vals |-> vals]
Shared(id) == [k |-> "shared", id |-> id]

EmptyObj == Obj(<<>>, <<>>)
O1(k1, v1) == Obj(<<k1>>, <<v1>>)
O2(k1, v1, k2, v2) == Obj(<<k1, k2>>, <<v1, v2>>)
O3(k1, v1, k2, v2, k3, v3) == Obj(<<k1, k2, k3>>, <<v1, v2, v3>>)

\* Leaf schemas
StringSchema == O1("type", Str("string"))
FreeForm == O1("type", Str("object"))

\* {properties: {email: {type: string}}}
EmailSchema == O1("properties", O1("email", StringSchema))
TokenSchema == O1("properties", O1("token", StringSchema))
BothSchema == O1("properties", O2("email", StringSchema, "token", StringSchema))
IdSchema == O1("properties", O1("id", StringSchema))

(***************************************************************************)
(* Shared objects.  1-8: a node that is its own child through each facet   *)
(* the finder descends; 9,10: a cycle of two nodes; 11: an acyclic         *)
(* shared component.                                                       *)
(***************************************************************************)
Heap ==
    <<  \* 1: properties.self is the node itself
        O1("properties", O2("self", Shared(1), "email", StringSchema)),
        \* 2: items
        O2("items", Shared(2), "properties", O1("token", StringSchema)),
        \* 3: additionalProperties
        O2("additionalProperties", Shared(3), "properties", O1("email", StringSchema)),
        \* 4: allOf member
        O2("allOf", Arr(<<Shared(4)>>), "properties", O1("email", StringSchema)),
        \* 5: oneOf member
        O2("oneOf", Arr(<<Shared(5)>>), "properties", O1("token", StringSchema)),
        \* 6: anyOf member
        O2("anyOf", Arr(<<Shared(6)>>), "properties", O1("email", StringSchema)),
        \* 7: patternProperties value
        O2("patternProperties", O1("^x-", Shared(7)), "properties", O1("token", StringSchema)),
        \* 8: self-reference with no target field anywhere
        O1("properties", O1("self", Shared(8))),
        \* 9 <-> 10
        O1("properties", O1("next", Shared(10))),
        O2("items", Shared(9), "properties", O1("email", StringSchema)),
        \* 11: acyclic shared component
        O1("properties", O1("email", StringSchema))
    >>

Val(v) == IF v.k = "shared" THEN Heap[v.id] ELSE v

\* typeof v
TypeOf(v) ==
    CASE v.k \in {"object", "array", "null"} -> "object"
      [] OTHER -> v.k

\* ToBoolean(v)
Truthy(v) ==
    CASE v.k \in {"undefined", "null"} -> FALSE
      [] v.k = "boolean" -> v.b
      [] v.k = "string" -> v.s # ""
      [] v.k = "number" -> v.n # 0
      [] OTHER -> TRUE

IndexStr == <<"0", "1", "2", "3">>

\* own enumerable string keys, in for...in order
Keys(v) ==
    CASE v.k = "object" -> v.keys
      [] v.k = "array" -> [i \in 1..Len(v.items) |-> IndexStr[i]]
      [] OTHER -> <<>>

IndexOf(s, x) == CHOOSE i \in 1..Len(s) : s[i] = x
InSeq(s, x) == \E i \in 1..Len(s) : s[i] = x

\* v[key] for a non-nullish v (own properties; primitives have none of ours)
Get(v, key) ==
    Val(CASE v.k = "object" /\ InSeq(v.keys, key) -> v.vals[IndexOf(v.keys, key)]
          [] v.k = "array" /\ InSeq(Keys(v), key) -> v.items[IndexOf(Keys(v), key)]
          [] OTHER -> Undefined)

\* the values of the own keys, in for...in order
Values(v) == [i \in 1..Len(Keys(v)) |-> Get(v, Keys(v)[i])]

\* names every object inherits from Object.prototype
ObjectPrototypeKeys == {"constructor", "toString", "hasOwnProperty", "valueOf"}

\* key in v, for an object v: own or inherited
In(key, v) == InSeq(Keys(v), key) \/ key \in ObjectPrototypeKeys

\* v.name raises a TypeError exactly when v is null or undefined
GetRaises(v) == v.k \in {"undefined", "null"}

\* (key in v) raises a TypeError exactly when v is no object
InRaises(v) == v.k \notin {"object", "array"}

\* for (const x of v) raises a TypeError when v is not iterable
ForOfRaises(v) == v.k \notin {"array", "string"}

\* A return of foundFields as it is
KeepAll(s) == s

\* [...new Set(s)]: first occurrences, in order
RECURSIVE Dedupe(_)
Dedupe(s) ==
    IF s = <<>> THEN <<>>
    ELSE LET init == Dedupe(SubSeq(s, 1, Len(s) - 1))
             last == s[Len(s)]
         IN  IF InSeq(init, last) THEN init ELSE Append(init, last)

SeqToSet(s) == {s[i] : i \in 1..Len(s)}

\* {} as a mapping from names to lists
EmptyMapping == [name \in {} |-> <<>>]

MAX_DEPTH == 10

(***************************************************************************)
(* findFieldsInSchema of generate-types.ts.  The body of the function is   *)
(* the list, in execution order, of what it does to its local foundFields: *)
(* push names (Push) or push the result of a recursive call at depth + 1   *)
(* (Visit).  The debug log is output only.                                 *)
(***************************************************************************)
Push(fields) == [visit |-> FALSE, fields |-> fields, child |-> Undefined]
Visit(child) == [visit |-> TRUE, fields |-> <<>>, child |-> child]
VisitEach(children) == [i \in 1..Len(children) |-> Visit(children[i])]

\* A guard that forgets the typeof test
IsTruthyOnly(facet) == Truthy(facet)

\* facet && typeof facet === 'object'
IsObjectFacet(facet) == Truthy(facet) /\ TypeOf(facet) = "object"

\* A test of the properties that stops at the first target field it finds
DirectPropertiesFirstMatch(schema, targetFields) ==
    LET properties == Get(schema, "properties")
        matches == SelectSeq(targetFields, LAMBDA field : In(field, properties))
    IN  IF IsObjectFacet(properties)
        THEN <<Push(IF matches = <<>> THEN <<>> ELSE <<Head(matches)>>)>>
                \o VisitEach(Values(properties))
        ELSE <<>>

\* if (schema.properties && typeof schema.properties === 'object') {...}
DirectProperties(schema, targetFields) ==
    LET properties == Get(schema, "properties") IN
    IF IsObjectFacet(properties)
    THEN <<Push(SelectSeq(targetFields, LAMBDA field : In(field, properties)))>>
            \o VisitEach(Values(properties))
    ELSE <<>>

\* if (schema.items) {...}
ArrayItems(schema) ==
    IF Truthy(Get(schema, "items")) THEN <<Visit(Get(schema, "items"))>> ELSE <<>>

\* A rule for objects without properties that also wants the node to have
\* neither additionalProperties nor patternProperties
DynamicObjectIfUnrestricted(schema, targetFields) ==
    IF /\ Get(schema, "type") = Str("object")
       /\ ~Truthy(Get(schema, "properties"))
       /\ ~Truthy(Get(schema, "additionalProperties"))
       /\ ~Truthy(Get(schema, "patternProperties"))
    THEN <<Push(targetFields)>>
    ELSE <<>>

\* if (schema.type === 'object' && !schema.properties) {...}
DynamicObject(schema, targetFields) ==
    IF Get(schema, "type") = Str("object") /\ ~Truthy(Get(schema, "properties"))
    THEN <<Push(targetFields)>>
    ELSE <<>>

\* if (schema.additionalProperties) {...}
AdditionalProperties(schema, targetFields) ==
    LET ap == Get(schema, "additionalProperties") IN
    IF ~Truthy(ap) THEN <<>>
    ELSE IF TypeOf(ap) = "object" THEN <<Visit(ap)>>
    ELSE IF ap = Bool(TRUE) THEN <<Push(targetFields)>>
    ELSE <<>>

\* facet && Array.isArray(facet)
IsArrayFacet(facet) == Truthy(facet) /\ facet.k = "array"

\* A descent into the first member only
CombinedFirstMemberOnly(schema, key) ==
    LET sub == Get(schema, key) IN
    IF IsArrayFacet(sub) /\ sub.items # <<>>
    THEN <<Visit(Val(sub.items[1]))>>
    ELSE <<>>

\* if (schema[key] && Array.isArray(schema[key])) {...}
Combined(schema, key) ==
    LET sub == Get(schema, key) IN
    IF IsArrayFacet(sub)
    THEN VisitEach([i \in 1..Len(sub.items) |-> Val(sub.items[i])])
    ELSE <<>>

\* for (const key of ['allOf', 'oneOf', 'anyOf']) {...}
CombinedSchemas(schema) ==
    Combined(schema, "allOf") \o Combined(schema, "oneOf") \o Combined(schema, "anyOf")

\* if (schema.patternProperties && typeof schema.patternProperties === 'object') {...}
PatternProperties(schema) ==
    LET pp == Get(schema, "patternProperties") IN
    IF IsObjectFacet(pp) THEN VisitEach(Values(pp)) ELSE <<>>

\* A rule that looks into the variants the mapping names
DiscriminatorVariants(schema, targetFields) ==
    LET d == Get(schema, "discriminator") IN
    IF Truthy(d) /\ Truthy(Get(d, "mapping")) THEN VisitEach(Values(Get(d, "mapping"))) ELSE <<>>

\* if (schema.discriminator && schema.discriminator.mapping) {...}
Discriminator(schema, targetFields) ==
    LET d == Get(schema, "discriminator") IN
    IF Truthy(d) /\ Truthy(Get(d, "mapping")) THEN <<Push(targetFields)>> ELSE <<>>

\* if (type === 'object' && !properties && !additionalProperties && !patternProperties)
FreeFormObject(schema, targetFields) ==
    IF /\ Get(schema, "type") = Str("object")
       /\ ~Truthy(Get(schema, "properties"))
       /\ ~Truthy(Get(schema, "additionalProperties"))
       /\ ~Truthy(Get(schema, "patternProperties"))
    THEN <<Push(targetFields)>>
    ELSE <<>>

\* if (!schema || typeof schema !== 'object') return []
NotASchema(schema) == ~Truthy(schema) \/ TypeOf(schema) # "object"

\* A ceiling two levels higher
TooDeepLater(depth) == depth > MAX_DEPTH + 2

\* A ceiling one level lower
TooDeepSooner(depth) == depth >= MAX_DEPTH

\* if (depth > 10) return []
TooDeep(depth) == depth > MAX_DEPTH

\* A finder without the two rules for objects without properties
BodyWithoutObjectRules(schema, targetFields, depth) ==
    IF NotASchema(schema) THEN <<>>
    ELSE IF TooDeep(depth) THEN <<>>
    ELSE DirectProperties(schema, targetFields)
            \o ArrayItems(schema)
            \o AdditionalProperties(schema, targetFields)
            \o CombinedSchemas(schema)
            \o PatternProperties(schema)
            \o Discriminator(schema, targetFields)

\* the body of findFieldsInSchema(schema, targetFields, depth)
Body(schema, targetFields, depth) ==
    IF NotASchema(schema) THEN <<>>
    ELSE IF TooDeep(depth) THEN <<>>
    ELSE DirectProperties(schema, targetFields)
            \o ArrayItems(schema)
            \o DynamicObject(schema, targetFields)
            \o AdditionalProperties(schema, targetFields)
            \o CombinedSchemas(schema)
            \o PatternProperties(schema)
            \o Discriminator(schema, targetFields)
            \o FreeFormObject(schema, targetFields)

\* whether the body raises in what it evaluates itself (its recursive calls
\* aside): the reads of schema.properties..., (field in schema.properties),
\* the for...of over allOf/oneOf/anyOf, the read of discriminator.mapping
BodyRaises(schema, targetFields, depth) ==
    IF NotASchema(schema) THEN FALSE
    ELSE IF TooDeep(depth) THEN FALSE
    ELSE \/ GetRaises(schema)
         \/ /\ IsObjectFacet(Get(schema, "properties"))
            /\ targetFields # <<>>
            /\ InRaises(Get(schema, "properties"))
         \/ \E key \in {"allOf", "oneOf", "anyOf"} :
                IsArrayFacet(Get(schema, key)) /\ ForOfRaises(Get(schema, key))
         \/ Truthy(Get(schema, "discriminator")) /\ GetRaises(Get(schema, "discriminator"))

RECURSIVE FindFieldsInSchema(_, _, _)
RECURSIVE RunBody(_, _, _)
RECURSIVE FindRaises(_, _, _)

\* whether findFieldsInSchema(schema, targetFields, depth) raises
FindRaises(schema, targetFields, depth) ==
    \/ BodyRaises(schema, targetFields, depth)
    \/ LET body == Body(schema, targetFields, depth) IN
       \E i \in 1..Len(body) :
            body[i].visit /\ FindRaises(body[i].child, targetFields, depth + 1)

\* foundFields after the given part of the body, run at the given depth
RunBody(body, targetFields, depth) ==
    IF body = <<>> THEN <<>>
    ELSE (IF Head(body).visit
          THEN FindFieldsInSchema(Head(body).child, targetFields, depth + 1)
          ELSE Head(body).fields)
         \o RunBody(Tail(body), targetFields, depth)

\* return [...new Set(foundFields)]
FindFieldsInSchema(schema, targetFields, depth) ==
    Dedupe(RunBody(Body(schema, targetFields, depth), targetFields, depth))

(***************************************************************************)
(* findFieldsInSchema with its debug log.  Every push of target names is   *)
(* followed by the same guarded report of the names pushed; a log entry    *)
(* holds what is reported: the name, the context and whether the node is   *)
(* nested.                                                                 *)
(***************************************************************************)
\* debug && context.path && context.method && context.location
Logging(debug, context) ==
    /\ debug
    /\ Truthy(Get(context, "path"))
    /\ Truthy(Get(context, "method"))
    /\ Truthy(Get(context, "location"))

\* A report that leaves the method name among the found fields
LogIntoFoundFields(run, fields, context, nested) ==
    [run EXCEPT !.foundFields = @ \o <<Get(context, "method").s>>]

\* logFieldDetection(...) and the console.log calls: one line for each name
LogFieldDetection(run, fields, context, nested) ==
    [run EXCEPT !.log = @ \o [i \in 1..Len(fields) |->
                                [field |-> fields[i], context |-> context, nested |-> nested]]]

RECURSIVE DebugRunBody(_, _, _, _, _)
RECURSIVE DebugFindFieldsInSchema(_, _, _, _, _)

\* foundFields and the log after the given part of the body
DebugRunBody(body, targetFields, depth, debug, context) ==
    IF body = <<>> THEN [foundFields |-> <<>>, log |-> <<>>]
    ELSE LET item == body[Len(body)]
             before == DebugRunBody(SubSeq(body, 1, Len(body) - 1), targetFields, depth,
                                    debug, context)
         IN  IF item.visit
             THEN LET nested == DebugFindFieldsInSchema(item.child, targetFields, depth + 1,
                                                        debug, context)
                  IN  [foundFields |-> before.foundFields \o nested.fields,
                       log |-> before.log \o nested.log]
             ELSE LET pushed == [before EXCEPT !.foundFields = @ \o item.fields]
                  IN  IF Logging(debug, context)
                      THEN LogFieldDetection(pushed, item.fields, context, depth > 0)
                      ELSE pushed

\* findFieldsInSchema(schema, targetFields, depth, debug, context)
DebugFindFieldsInSchema(schema, targetFields, depth, debug, context) ==
    LET run == DebugRunBody(Body(schema, targetFields, depth), targetFields, depth,
                            debug, context)
    IN  [fields |-> Dedupe(run.foundFields), log |-> run.log]

(***************************************************************************)
(* Strings.  TLA+ strings are atoms, so the strings the code compares,     *)
(* sorts or splits are given by their UTF-16 code units.                   *)
(***************************************************************************)
KnownStrings ==
    {"/a",
     "/b",
     "/a/c",
     "#/components/schemas/User",
     "#/components/schemas/Node",
     "#/components/schemas/Missing",
     "#/components/missing/User",
     "components/schemas/User",
     "components",
     "schemas",
     "missing",
     "User",
     "Node",
     "Missing",
     "my-api",
     "my-api.yaml",
     "specs/my-api",
     "better-auth",
     ".yaml",
     "simple-",
     ".path.ts",
     "gen",
     "spec",
     "custom.ts",
     "out/custom.ts"}

CodeUnits(s) ==
    CASE s = "" -> <<>>
      [] s = "/a" ->
            <<47, 97>>
      [] s = "/b" ->
            <<47, 98>>
      [] s = "/a/c" ->
            <<47, 97, 47, 99>>
      [] s = "#/components/schemas/User" ->
            <<35, 47, 99, 111, 109, 112, 111, 110, 101, 110, 116, 115, 47, 115, 99, 104, 101, 109, 97, 115, 47, 85, 115, 101, 114>>
      [] s = "#/components/schemas/Node" ->
            <<35, 47, 99, 111, 109, 112, 111, 110, 101, 110, 116, 115, 47, 115, 99, 104, 101, 109, 97, 115, 47, 78, 111, 100, 101>>
      [] s = "#/components/schemas/Missing" ->
            <<35, 47, 99, 111, 109, 112, 111, 110, 101, 110, 116, 115, 47, 115, 99, 104, 101, 109, 97, 115, 47, 77, 105, 115, 115, 105, 110, 103>>
      [] s = "#/components/missing/User" ->
            <<35, 47, 99, 111, 109, 112, 111, 110, 101, 110, 116, 115, 47, 109, 105, 115, 115, 105, 110, 103, 47, 85, 115, 101, 114>>
      [] s = "components/schemas/User" ->
            <<99, 111, 109, 112, 111, 110, 101, 110, 116, 115, 47, 115, 99, 104, 101, 109, 97, 115, 47, 85, 115, 101, 114>>
      [] s = "components" ->
            <<99, 111, 109, 112, 111, 110, 101, 110, 116, 115>>
      [] s = "schemas" ->
            <<115, 99, 104, 101, 109, 97, 115>>
      [] s = "missing" ->
            <<109, 105, 115, 115, 105, 110, 103>>
      [] s = "User" ->
            <<85, 115, 101, 114>>
      [] s = "Node" ->
            <<78, 111, 100, 101>>
      [] s = "Missing" ->
            <<77, 105, 115, 115, 105, 110, 103>>
      [] s = "my-api" ->
            <<109, 121, 45, 97, 112, 105>>
      [] s = "my-api.yaml" ->
            <<109, 121, 45, 97, 112, 105, 46, 121, 97, 109, 108>>
      [] s = "specs/my-api" ->
            <<115, 112, 101, 99, 115, 47, 109, 121, 45, 97, 112, 105>>
      [] s = "better-auth" ->
            <<98, 101, 116, 116, 101, 114, 45, 97, 117, 116, 104>>
      [] s = ".yaml" ->
            <<46, 121, 97, 109, 108>>
      [] s = "simple-" ->
            <<115, 105, 109, 112, 108, 101, 45>>
      [] s = ".path.ts" ->
            <<46, 112, 97, 116, 104, 46, 116, 115>>
      [] s = "gen" ->
            <<103, 101, 110>>
      [] s = "spec" ->
            <<115, 112, 101, 99>>
      [] s = "custom.ts" ->
            <<99, 117, 115, 116, 111, 109, 46, 116, 115>>
      [] s = "out/custom.ts" ->
            <<111, 117, 116, 47, 99, 117, 115, 116, 111, 109, 46, 116, 115>>

\* the string with the given code units ("?" stands for any other string)
FromCodeUnits(u) ==
    IF \E s \in KnownStrings : CodeUnits(s) = u
    THEN CHOOSE s \in KnownStrings : CodeUnits(s) = u
    ELSE "?"

\* a < b as Array.prototype.sort() compares strings: by code units
RECURSIVE UnitsLess(_, _)
UnitsLess(a, b) ==
    IF a = <<>> THEN b # <<>>
    ELSE IF b = <<>> THEN FALSE
    ELSE IF Head(a) # Head(b) THEN Head(a) < Head(b)
    ELSE UnitsLess(Tail(a), Tail(b))

StrLess(a, b) == UnitsLess(CodeUnits(a), CodeUnits(b))

\* A sort in descending order
RECURSIVE SortedDescending(_)
SortedDescending(set) ==
    IF set = {} THEN <<>>
    ELSE LET greatest == CHOOSE x \in set : \A y \in set \ {x} : StrLess(y, x)
         IN  <<greatest>> \o SortedDescending(set \ {greatest})

\* Array.from(set).sort()
RECURSIVE SortedArray(_)
SortedArray(set) ==
    IF set = {} THEN <<>>
    ELSE LET least == CHOOSE x \in set : \A y \in set \ {x} : StrLess(x, y)
         IN  <<least>> \o SortedArray(set \ {least})

(***************************************************************************)
(* findFieldsInSchema of simple-generate-types.ts: resolves $ref against   *)
(* the document; has no patternProperties, discriminator or free-form rule.*)
(***************************************************************************)
\* whether the code units at position i of u are those of pattern
MatchAt(u, i, pattern) ==
    /\ i + Len(pattern) - 1 <= Len(u)
    /\ \A n \in 1..Len(pattern) : u[i + n - 1] = pattern[n]

\* u.replace(pattern, ''): the first occurrence removed
RemoveFirst(u, pattern) ==
    IF \E i \in 1..Len(u) : MatchAt(u, i, pattern)
    THEN LET at == CHOOSE i \in 1..Len(u) :
                        MatchAt(u, i, pattern) /\ \A j \in 1..(i - 1) : ~MatchAt(u, j, pattern)
         IN  SubSeq(u, 1, at - 1) \o SubSeq(u, at + Len(pattern), Len(u))
    ELSE u

\* u.split(separator), for a separator of one code unit
RECURSIVE Split(_, _)
Split(u, separator) ==
    IF \E i \in 1..Len(u) : u[i] = separator
    THEN LET at == CHOOSE i \in 1..Len(u) : u[i] = separator /\ \A j \in 1..(i - 1) : u[j] # separator
         IN  <<SubSeq(u, 1, at - 1)>> \o Split(SubSeq(u, at + 1, Len(u)), separator)
    ELSE <<u>>

NumberSign == 35
Slash == 47

\* const refPath = schema.$ref.replace('#/', '').split('/')
RefPath(ref) ==
    LET segments == Split(RemoveFirst(CodeUnits(ref), <<NumberSign, Slash>>), Slash)
    IN  [i \in 1..Len(segments) |-> FromCodeUnits(segments[i])]

\* for (const segment of refPath) { resolvedSchema = resolvedSchema[segment];
\*   if (!resolvedSchema) break; }
RECURSIVE WalkSegments(_, _)
WalkSegments(resolvedSchema, refPath) ==
    IF refPath = <<>> THEN resolvedSchema
    ELSE LET next == Get(resolvedSchema, Head(refPath)) IN
         IF ~Truthy(next) THEN next ELSE WalkSegments(next, Tail(refPath))

\* A resolver that looks the last segment up at the root of the document
ResolveLastSegmentOnly(openApiDoc, ref) ==
    IF ref.k # "string" THEN Undefined
    ELSE Get(openApiDoc, RefPath(ref.s)[Len(RefPath(ref.s))])

\* the try block: a $ref that is no string raises inside it and resolves nothing
ResolveRef(openApiDoc, ref) ==
    IF ref.k # "string" THEN Undefined
    ELSE WalkSegments(openApiDoc, RefPath(ref.s))

\* if (schema.$ref && openApiDoc) { try {...} catch {} }
Reference(schema, openApiDoc) ==
    IF Truthy(Get(schema, "$ref")) /\ Truthy(openApiDoc)
    THEN LET resolvedSchema == ResolveRef(openApiDoc, Get(schema, "$ref")) IN
         IF Truthy(resolvedSchema) THEN <<Visit(resolvedSchema)>> ELSE <<>>
    ELSE <<>>

\* the body of findFieldsInSchema(schema, targetFields, depth, openApiDoc)
SimpleBody(schema, targetFields, depth, openApiDoc) ==
    IF NotASchema(schema) THEN <<>>
    ELSE IF TooDeep(depth) THEN <<>>
    ELSE Reference(schema, openApiDoc)
            \o DirectProperties(schema, targetFields)
            \o ArrayItems(schema)
            \o DynamicObject(schema, targetFields)
            \o AdditionalProperties(schema, targetFields)
            \o CombinedSchemas(schema)

\* whether the body raises in what it evaluates itself; what the try block
\* raises is caught
SimpleBodyRaises(schema, targetFields, depth) ==
    IF NotASchema(schema) THEN FALSE
    ELSE IF TooDeep(depth) THEN FALSE
    ELSE \/ GetRaises(schema)
         \/ /\ IsObjectFacet(Get(schema, "properties"))
            /\ targetFields # <<>>
            /\ InRaises(Get(schema, "properties"))
         \/ \E key \in {"allOf", "oneOf", "anyOf"} :
                IsArrayFacet(Get(schema, key)) /\ ForOfRaises(Get(schema, key))

RECURSIVE SimpleFindFieldsInSchema(_, _, _, _)
RECURSIVE SimpleRunBody(_, _, _, _)
RECURSIVE SimpleFindRaises(_, _, _, _)

SimpleFindRaises(schema, targetFields, depth, openApiDoc) ==
    \/ SimpleBodyRaises(schema, targetFields, depth)
    \/ LET body == SimpleBody(schema, targetFields, depth, openApiDoc) IN
       \E i \in 1..Len(body) :
            body[i].visit /\ SimpleFindRaises(body[i].child, targetFields, depth + 1, openApiDoc)

SimpleRunBody(body, targetFields, depth, openApiDoc) ==
    IF body = <<>> THEN <<>>
    ELSE (IF Head(body).visit
          THEN SimpleFindFieldsInSchema(Head(body).child, targetFields, depth + 1, openApiDoc)
          ELSE Head(body).fields)
         \o SimpleRunBody(Tail(body), targetFields, depth, openApiDoc)

SimpleFindFieldsInSchema(schema, targetFields, depth, openApiDoc) ==
    Dedupe(SimpleRunBody(SimpleBody(schema, targetFields, depth, openApiDoc),
                         targetFields, depth, openApiDoc))

(***************************************************************************)
(* findFieldsInSchema(schema, targetFields) of the two generators that     *)
(* read the document with yaml.parse (unnamed/part_000, unnamed/part_001): *)
(* the properties, items and allOf/oneOf/anyOf rules, and no depth.        *)
(***************************************************************************)
YamlBody(schema, targetFields) ==
    IF NotASchema(schema) THEN <<>>
    ELSE DirectProperties(schema, targetFields)
            \o ArrayItems(schema)
            \o CombinedSchemas(schema)

(***************************************************************************)
(* File names of simple-generate-types.ts, as sequences of code units.     *)
(***************************************************************************)
Dot == 46
Backslash == 92

\* u.endsWith(suffix)
EndsWith(u, suffix) ==
    /\ Len(suffix) <= Len(u)
    /\ SubSeq(u, Len(u) - Len(suffix) + 1, Len(u)) = suffix

\* u.includes(unit)
Includes(u, unit) == \E i \in 1..Len(u) : u[i] = unit

\* path.basename(u): what follows the last separator
Basename(u) ==
    IF Includes(u, Slash)
    THEN LET last == CHOOSE i \in 1..Len(u) :
                        u[i] = Slash /\ \A j \in (i + 1)..Len(u) : u[j] # Slash
         IN  SubSeq(u, last + 1, Len(u))
    ELSE u

\* u.replace(/\.[^/.]+$/, ''): a last dot followed, up to the end, by one or
\* more units that are neither dots nor separators is removed with them
RemoveExtension(u) ==
    IF \E i \in 1..(Len(u) - 1) :
            u[i] = Dot /\ \A j \in (i + 1)..Len(u) : u[j] \notin {Dot, Slash}
    THEN LET at == CHOOSE i \in 1..(Len(u) - 1) :
                        u[i] = Dot /\ \A j \in (i + 1)..Len(u) : u[j] \notin {Dot, Slash}
         IN  SubSeq(u, 1, at - 1)
    ELSE u

\* inputPath.endsWith('.yaml') ? inputPath : `${inputPath}.yaml`
WithYaml(u) == IF EndsWith(u, CodeUnits(".yaml")) THEN u ELSE u \o CodeUnits(".yaml")

\* path.join('./spec', processedPath) unless the path names a directory
ResolveInputPath(inputPath) ==
    LET processedPath == WithYaml(inputPath) IN
    IF Includes(processedPath, Slash) \/ Includes(processedPath, Backslash)
    THEN processedPath
    ELSE CodeUnits("spec") \o <<Slash>> \o processedPath

\* return `simple-${nameWithoutExt}.path.ts`
GenerateOutputFileName(inputPath) ==
    CodeUnits("simple-") \o RemoveExtension(Basename(inputPath)) \o CodeUnits(".path.ts")

\* path.join('./gen', outputPath) unless the path names a directory; join
\* normalises './gen' to 'gen'
ResolveOutputPath(outputPath) ==
    IF Includes(outputPath, Slash) \/ Includes(outputPath, Backslash)
    THEN outputPath
    ELSE CodeUnits("gen") \o <<Slash>> \o outputPath

DEFAULT_OPENAPI_FILE == "better-auth"

\* parseArgs() for the given options: interactive mode, or the files
ParseArgs(options) ==
    LET hasRelevantArgs ==
            \/ options.input # DEFAULT_OPENAPI_FILE
            \/ Truthy(options.output)
            \/ Truthy(options.responseFields)
            \/ Truthy(options.requestFields)
        inputFileName == WithYaml(CodeUnits(options.input))
        outputFile == IF Truthy(options.output)
                      THEN CodeUnits(options.output.s)
                      ELSE GenerateOutputFileName(inputFileName)
    IN  IF options.interactive \/ ~hasRelevantArgs
        THEN [raised |-> FALSE, interactive |-> TRUE]
        ELSE [raised |-> FALSE, interactive |-> FALSE,
              inputFile |-> ResolveInputPath(inputFileName),
              outputFile |-> ResolveOutputPath(outputFile)]

(***************************************************************************)
(* Scanning helpers                                                        *)
(***************************************************************************)
DEFAULT_GROUP == "default"

\* A list of methods with trace in it
MethodsWithTrace == <<"get", "post", "put", "delete", "patch", "head", "options", "trace">>

HTTP_METHODS == <<"get", "post", "put", "delete", "patch", "head", "options">>

RECURSIVE Flatten(_)
Flatten(ss) == IF ss = <<>> THEN <<>> ELSE Head(ss) \o Flatten(Tail(ss))

\* the strings of an array of strings
Strings(arr) == [i \in 1..Len(arr.items) |-> arr.items[i].s]

\* the operations of a document the scans visit, in visiting order:
\* for (const path in openApi.paths) { if (!pathItem) continue;
\*   for (const method of HTTP_METHODS) { operation = pathItem[method] ...
Operations(openApi) ==
    LET paths == Get(openApi, "paths")
        OfPath(path) ==
            LET pathItem == Get(paths, path) IN
            IF ~Truthy(pathItem) THEN <<>>
            ELSE [m \in 1..Len(HTTP_METHODS) |->
                    [path |-> path, method |-> HTTP_METHODS[m],
                     operation |-> Get(pathItem, HTTP_METHODS[m])]]
    IN  Flatten([i \in 1..Len(Keys(paths)) |-> OfPath(Keys(paths)[i])])

(***************************************************************************)
(* extractGroupPaths of generate-types.ts                                  *)
(***************************************************************************)
\* A grouper that drops untagged operations
GroupsTaggedOnly(operation) ==
    LET tags == Get(operation, "tags") IN
    IF Truthy(tags) /\ tags.k = "array" /\ Len(tags.items) > 0
    THEN Strings(tags)
    ELSE <<>>

\* the groups one operation adds its path to
GroupsOfOperation(operation) ==
    LET tags == Get(operation, "tags") IN
    IF Truthy(tags) /\ tags.k = "array" /\ Len(tags.items) > 0
    THEN Strings(tags)
    ELSE <<DEFAULT_GROUP>>

\* A grouper that looks at the get operations only
ExtractGroupPathsOfGet(openApi) ==
    IF ~Truthy(Get(openApi, "paths")) THEN EmptyMapping
    ELSE LET ops == SelectSeq(Operations(openApi),
                              LAMBDA o : Truthy(o.operation) /\ o.method = "get")
             PathsOf(group) ==
                {ops[i].path : i \in {j \in 1..Len(ops) :
                                        InSeq(GroupsOfOperation(ops[j].operation), group)}}
             groups == UNION {SeqToSet(GroupsOfOperation(ops[i].operation)) : i \in 1..Len(ops)}
         IN  [group \in groups |-> SortedArray(PathsOf(group))]

\* extractGroupPaths(openApi)
ExtractGroupPaths(openApi) ==
    IF ~Truthy(Get(openApi, "paths")) THEN EmptyMapping
    ELSE LET ops == SelectSeq(Operations(openApi), LAMBDA o : Truthy(o.operation))
             PathsOf(group) ==
                {ops[i].path : i \in {j \in 1..Len(ops) :
                                        InSeq(GroupsOfOperation(ops[j].operation), group)}}
             groups == UNION {SeqToSet(GroupsOfOperation(ops[i].operation)) : i \in 1..Len(ops)}
         IN  [group \in groups |-> SortedArray(PathsOf(group))]

(***************************************************************************)
(* extractResponseFieldPaths and extractRequestFieldPaths of               *)
(* generate-types.ts.  A scan is the list of its visits to media-type      *)
(* entries, in order; a visit either raises (a property read of null or    *)
(* undefined) or yields the fields found, for the path and the groups of   *)
(* the operation.                                                          *)
(***************************************************************************)
\* Grouping by the first tag only
GroupsFirstTagOnly(operation) ==
    LET tags == Get(operation, "tags") IN
    IF Truthy(tags)
    THEN (IF Len(tags.items) > 0 THEN <<tags.items[1].s>> ELSE <<>>)
    ELSE <<DEFAULT_GROUP>>

\* const groups = operation.tags || [DEFAULT_GROUP]
GroupsOfFindings(operation) ==
    LET tags == Get(operation, "tags") IN
    IF Truthy(tags) THEN Strings(tags) ELSE <<DEFAULT_GROUP>>

\* for (const mediaType in content) { mediaObj = content[mediaType];
\*   if (mediaObj.schema) { foundFields = findFieldsInSchema(mediaObj.schema, ...
VisitContent(content, targetFields, path, groups) ==
    [i \in 1..Len(Keys(content)) |->
        LET mediaObj == Get(content, Keys(content)[i]) IN
        IF GetRaises(mediaObj)
        THEN [raise |-> TRUE, path |-> path, groups |-> groups, fields |-> <<>>]
        ELSE IF Truthy(Get(mediaObj, "schema"))
        THEN [raise |-> FindRaises(Get(mediaObj, "schema"), targetFields, 0),
              path |-> path, groups |-> groups,
              fields |-> FindFieldsInSchema(Get(mediaObj, "schema"), targetFields, 0)]
        ELSE [raise |-> FALSE, path |-> path, groups |-> groups, fields |-> <<>>]]

\* A scanner that reads only the first declared response of an operation
VisitFirstResponseOnly(o, targetFields) ==
    LET responses == IF Truthy(o.operation) THEN Get(o.operation, "responses") ELSE Undefined
        first == IF Len(Keys(responses)) > 0 THEN Values(responses)[1] ELSE Undefined
    IN  IF Truthy(first) /\ Truthy(Get(first, "content"))
        THEN VisitContent(Get(first, "content"), targetFields, o.path,
                          IF Truthy(Get(o.operation, "tags"))
                          THEN Strings(Get(o.operation, "tags")) ELSE <<DEFAULT_GROUP>>)
        ELSE <<>>

\* if (operation && operation.responses) { for (const responseCode in ...
\*   if (response && response.content) {...
VisitResponses(o, targetFields) ==
    LET responses == IF Truthy(o.operation) THEN Get(o.operation, "responses") ELSE Undefined
        OfResponse(response) ==
            IF Truthy(response) /\ Truthy(Get(response, "content"))
            THEN VisitContent(Get(response, "content"), targetFields, o.path,
                              GroupsOfFindings(o.operation))
            ELSE <<>>
    IN  IF Truthy(responses)
        THEN Flatten([i \in 1..Len(Keys(responses)) |-> OfResponse(Values(responses)[i])])
        ELSE <<>>

\* A request scan that goes on into the responses of the operation
VisitRequestBodyAndResponses(o, targetFields) ==
    LET requestBody == IF Truthy(o.operation) THEN Get(o.operation, "requestBody") ELSE Undefined
    IN  (IF Truthy(requestBody) /\ Truthy(Get(requestBody, "content"))
         THEN VisitContent(Get(requestBody, "content"), targetFields, o.path,
                           GroupsOfFindings(o.operation))
         ELSE <<>>)
        \o VisitResponses(o, targetFields)

\* if (operation && operation.requestBody) { if (operation.requestBody.content) {...
VisitRequestBody(o, targetFields) ==
    LET requestBody == IF Truthy(o.operation) THEN Get(o.operation, "requestBody") ELSE Undefined
    IN  IF Truthy(requestBody) /\ Truthy(Get(requestBody, "content"))
        THEN VisitContent(Get(requestBody, "content"), targetFields, o.path,
                          GroupsOfFindings(o.operation))
        ELSE <<>>

\* A scanner that returns the paths in the order it met them
ScanResultInVisitOrder(visits, targetFields) ==
    LET found(field) == SelectSeq(visits, LAMBDA v : InSeq(v.fields, field))
        paths(vs) == Dedupe([i \in 1..Len(vs) |-> vs[i].path])
        groupsOf(field) ==
            UNION {SeqToSet(found(field)[i].groups) : i \in 1..Len(found(field))}
    IN  [raised |-> FALSE,
         fieldPaths |-> [field \in SeqToSet(targetFields) |-> paths(found(field))],
         groupFieldPaths |->
            [field \in SeqToSet(targetFields) |->
                [group \in groupsOf(field) |->
                    paths(SelectSeq(found(field), LAMBDA v : InSeq(v.groups, group)))]]]

\* A result with keys for the fields that were found only
ScanResultOfFound(visits, targetFields) ==
    LET hits(field) == {i \in 1..Len(visits) : InSeq(visits[i].fields, field)}
        found == {field \in SeqToSet(targetFields) : hits(field) # {}}
        groupsOf(field) == UNION {SeqToSet(visits[i].groups) : i \in hits(field)}
    IN  [raised |-> FALSE,
         fieldPaths |->
            [field \in found |-> SortedArray({visits[i].path : i \in hits(field)})],
         groupFieldPaths |->
            [field \in found |->
                [group \in groupsOf(field) |->
                    SortedArray({visits[i].path :
                        i \in {j \in hits(field) : InSeq(visits[j].groups, group)}})]]]

\* The result of a scan with the given visits: Sets converted to sorted arrays
ScanResult(visits, targetFields) ==
    LET hits(field) == {i \in 1..Len(visits) : InSeq(visits[i].fields, field)}
        groupsOf(field) == UNION {SeqToSet(visits[i].groups) : i \in hits(field)}
    IN  [raised |-> FALSE,
         fieldPaths |->
            [field \in SeqToSet(targetFields) |->
                SortedArray({visits[i].path : i \in hits(field)})],
         groupFieldPaths |->
            [field \in SeqToSet(targetFields) |->
                [group \in groupsOf(field) |->
                    SortedArray({visits[i].path :
                        i \in {j \in hits(field) : InSeq(visits[j].groups, group)}})]]]

\* A result without the keys of the fields
NoPathsNoKeys(targetFields) ==
    [raised |-> FALSE, fieldPaths |-> EmptyMapping, groupFieldPaths |-> EmptyMapping]

\* The result for a document without paths
NoPathsResult(targetFields) ==
    [raised |-> FALSE,
     fieldPaths |-> [field \in SeqToSet(targetFields) |-> <<>>],
     groupFieldPaths |-> [field \in SeqToSet(targetFields) |-> EmptyMapping]]

Raised == [raised |-> TRUE]

\* the visits of a scan of the responses, and of the request bodies, of the
\* operations in visiting order
ResponseVisits(ops, targetFields) ==
    Flatten([i \in 1..Len(ops) |-> VisitResponses(ops[i], targetFields)])

RequestVisits(ops, targetFields) ==
    Flatten([i \in 1..Len(ops) |-> VisitRequestBody(ops[i], targetFields)])

\* what a scan with the given visits gives: it throws where a visit does
Scanned(visits, targetFields) ==
    IF \E i \in 1..Len(visits) : visits[i].raise
    THEN Raised
    ELSE ScanResult(visits, targetFields)

\* extractResponseFieldPaths(openApi, targetFields)
ExtractResponseFieldPaths(openApi, targetFields) ==
    IF ~Truthy(Get(openApi, "paths")) THEN NoPathsResult(targetFields)
    ELSE Scanned(ResponseVisits(Operations(openApi), targetFields), targetFields)

\* extractRequestFieldPaths(openApi, targetFields)
ExtractRequestFieldPaths(openApi, targetFields) ==
    IF ~Truthy(Get(openApi, "paths")) THEN NoPathsResult(targetFields)
    ELSE Scanned(RequestVisits(Operations(openApi), targetFields), targetFields)

(***************************************************************************)
(* main of generate-types.ts.  What bundle, validate and dereference give  *)
(* is an input of a run: each throws or returns a value.  The generated    *)
(* code is kept as the three arguments generateImprovedCode is called with. *)
(***************************************************************************)
\* A test that only wants a document
MissingDocument(openApi) == ~Truthy(openApi)

\* !openApi || !openApi.paths
MissingPaths(openApi) == ~Truthy(openApi) \/ ~Truthy(Get(openApi, "paths"))

\* bundleResult && typeof bundleResult === 'object' && 'paths' in bundleResult
UsableBundle(bundleResult) ==
    Truthy(bundleResult) /\ TypeOf(bundleResult) = "object" /\ In("paths", bundleResult)

\* the catch of main: process.exit(1); nothing has been written
Exit1(openApi) ==
    [raised |-> FALSE, exit |-> 1, written |-> FALSE, openApi |-> openApi, file |-> Undefined]

\* openApi after the validation step: the validated specification, or the
\* bundled result when validation failed or threw and the result has 'paths';
\* Undefined stands for the throw of "Invalid OpenAPI specification"
Validated(bundleResult, validateResult) ==
    IF /\ ~validateResult.throws
       /\ validateResult.valid
       /\ Truthy(validateResult.specification)
    THEN validateResult.specification
    ELSE IF UsableBundle(bundleResult) THEN bundleResult ELSE Undefined

\* openApi after the dereferencing step
AfterDereference(openApi, dereferenceResult) ==
    IF /\ ~dereferenceResult.throws
       /\ Truthy(dereferenceResult.specification)
       /\ Truthy(Get(dereferenceResult.specification, "paths"))
    THEN dereferenceResult.specification
    ELSE openApi

\* { fieldPaths: {}, groupFieldPaths: {} }
NoFieldPaths == [raised |-> FALSE, fieldPaths |-> EmptyMapping, groupFieldPaths |-> EmptyMapping]

\* args.responseFields && args.responseFields.length > 0
Given(fields) == Truthy(fields) /\ Len(fields.items) > 0

\* generateImprovedCode and writeFileSync with what the extraction gave; a
\* scan that threw is caught by main
Write(openApi, groupPaths, responseFieldPaths, requestFieldPaths) ==
    IF responseFieldPaths.raised \/ requestFieldPaths.raised
    THEN Exit1(openApi)
    ELSE [raised |-> FALSE, exit |-> 0, written |-> TRUE, openApi |-> openApi,
          file |-> [groupPaths |-> groupPaths,
                    responseFieldPaths |-> responseFieldPaths,
                    requestFieldPaths |-> requestFieldPaths]]

\* the extraction, generateImprovedCode and writeFileSync
Generate(openApi, args) ==
    Write(openApi,
          ExtractGroupPaths(openApi),
          IF Given(args.responseFields)
          THEN ExtractResponseFieldPaths(openApi, Strings(args.responseFields))
          ELSE NoFieldPaths,
          IF Given(args.requestFields)
          THEN ExtractRequestFieldPaths(openApi, Strings(args.requestFields))
          ELSE NoFieldPaths)

\* generateImprovedCode: the paths a constant is declared for
\* (pathConstants[path] = constantName, for every path of every group)
PathConstants(groupPaths) ==
    UNION {SeqToSet(groupPaths[group]) : group \in DOMAIN groupPaths}

\* generateImprovedCode: the paths whose constants are listed under
\* AllPathsWithResponseField[field] / AllPathsWithRequestField[field], which
\* spreads the non-empty group buckets of a field that has paths
AllPathsWithField(scan, field) ==
    IF Len(scan.fieldPaths[field]) = 0 THEN {}
    ELSE UNION {SeqToSet(scan.groupFieldPaths[field][group]) :
                    group \in {g \in DOMAIN scan.groupFieldPaths[field] :
                                    Len(scan.groupFieldPaths[field][g]) # 0}}

\* openApi when main comes to its test of paths: nothing when bundle threw or
\* returned nothing (main has thrown by then), else what validation left
Loads(bundleResult, validateResult) ==
    IF bundleResult.throws \/ ~Truthy(bundleResult.value) THEN Undefined
    ELSE Validated(bundleResult.value, validateResult)

(***************************************************************************)
(* Inputs                                                                  *)
(***************************************************************************)
MaxTargets == 2
Fields == {"email", "token"}

\* the target lists: every list of at most MaxTargets names (repeats allowed)
TargetLists == UNION {[1..n -> Fields] : n \in 0..MaxTargets}

\* the target lists the scanners are called with: no name, one, two, and one
\* name twice (a result is keyed by name, so the order of two names does not
\* show in it)
ScanTargetLists ==
    {<<>>, <<"email">>, <<"email", "token">>, <<"email", "email">>}

\* target lists with names every object inherits
InheritedTargets == {<<"constructor">>, <<"email", "toString">>}

\* the target lists the finder is called with
FinderTargetLists == TargetLists \cup InheritedTargets

\* { path, method, location: 'response' }, and a context with parts missing
FullContext == O3("path", Str("/a"), "method", Str("get"), "location", Str("response"))
PathOnlyContext == O1("path", Str("/a"))

\* debug and context of a call: the defaults, what the scanners pass, and
\* debug with parts of the context missing
Loggings ==
    {<<FALSE, EmptyObj>>, <<TRUE, FullContext>>, <<TRUE, PathOnlyContext>>, <<FALSE, FullContext>>}

\* The options of a run of simple-generate-types: -i, -o, -rf, -reqf and
\* --interactive, each given or left at its default
Options ==
    [input : {"my-api", "my-api.yaml", "specs/my-api", DEFAULT_OPENAPI_FILE},
     output : {Undefined, Str("custom.ts"), Str("out/custom.ts")},
     responseFields : {Undefined, Arr(<<Str("email")>>)},
     requestFields : {Undefined, Arr(<<Str("token")>>)},
     interactive : BOOLEAN]

\* Schemas for the finder without a depth: trees, and graphs in which a node
\* is reachable from itself
YamlSchemas ==
    {Null, EmailSchema, BothSchema, O1("items", O1("allOf", Arr(<<IdSchema, TokenSchema>>)))}
        \cup {Shared(i) : i \in 1..Len(Heap)}

\* Object schemas whose facets have unexpected types
MalformedSchemas ==
    {O1("properties", Str("email")),
     O1("properties", Num(1)),
     O1("properties", Arr(<<EmailSchema>>)),
     O2("allOf", EmailSchema, "oneOf", Str("email")),
     O2("anyOf", Bool(TRUE), "type", Str("string")),
     O1("items", Str("email")),
     O1("items", Num(0)),
     O2("discriminator", O1("propertyName", Str("kind")), "properties", O1("token", StringSchema)),
     O1("discriminator", Bool(TRUE)),
     O1("discriminator", Str("email")),
     O1("patternProperties", O2("^a", Null, "^b", EmailSchema)),
     O1("patternProperties", Str("email")),
     O2("additionalProperties", Str("email"), "type", Str("object")),
     O2("additionalProperties", Bool(FALSE), "type", Num(1)),
     Arr(<<EmailSchema>>)}

\* Schemas with an object without properties in them
FreeFormSchemas ==
    {FreeForm,
     O2("type", Str("object"), "items", IdSchema),
     O2("type", Str("object"), "discriminator", O1("propertyName", Str("kind"))),
     O1("properties", O1("meta", FreeForm)),
     O1("items", O1("allOf", Arr(<<IdSchema, FreeForm>>)))}

\* Objects without properties that have other facets, at the root and nested
DynamicSchemas ==
    {O2("type", Str("object"), "additionalProperties", Bool(FALSE)),
     O2("type", Str("object"), "additionalProperties", IdSchema),
     O2("type", Str("object"), "patternProperties", O1("^x-", IdSchema)),
     O3("type", Str("object"), "additionalProperties", Bool(FALSE),
        "patternProperties", O1("^x-", StringSchema)),
     O3("type", Str("object"), "items", IdSchema, "allOf", Arr(<<IdSchema>>)),
     O1("properties", O1("meta", O2("type", Str("object"),
                                    "patternProperties", O1("^x-", IdSchema)))),
     O1("items", O2("type", Str("object"), "additionalProperties", IdSchema))}

\* discriminator: {propertyName: 'kind', mapping: {...}}
Mapping(mapping) == O2("propertyName", Str("kind"), "mapping", mapping)

\* Nodes with an open-schema marker, at the root and nested
OpenSchemas ==
    {O1("additionalProperties", Bool(TRUE)),
     O2("properties", O1("id", StringSchema), "additionalProperties", Bool(TRUE)),
     O2("type", Str("string"), "additionalProperties", Bool(TRUE)),
     O1("discriminator", Mapping(EmptyObj)),
     O2("discriminator", Mapping(O1("user", Str("#/components/schemas/User"))),
        "oneOf", Arr(<<IdSchema>>)),
     O2("properties", O1("token", StringSchema),
        "discriminator", Mapping(O1("user", EmailSchema))),
     O1("properties", O1("meta", O2("properties", O1("id", StringSchema),
                                    "additionalProperties", Bool(TRUE)))),
     O1("allOf", Arr(<<IdSchema, O2("properties", O1("id", StringSchema),
                                    "discriminator", Mapping(EmptyObj))>>))}

\* the deepest node of a chain
MaxChain == 12

\* A chain of nodes made of properties only.  Node i (the root is node 0) is a
\* value of the properties of node i - 1; node d alone has the key "email",
\* either beside the key that holds the next node or as that key.
RECURSIVE ChainFrom(_, _, _, _)
ChainFrom(i, d, length, through) ==
    IF i = length
    THEN O1("properties", IF i = d THEN O1("email", EmptyObj) ELSE EmptyObj)
    ELSE LET rest == ChainFrom(i + 1, d, length, through) IN
         IF i # d THEN O1("properties", O1("next", rest))
         ELSE IF through THEN O1("properties", O1("email", rest))
         ELSE O1("properties", O2("next", rest, "email", EmptyObj))

\* the chains: the field at the root, just below it, around the ceiling and at
\* the far end, in chains that end with the field's node or go on to the end
ChainSchemas ==
    {ChainFrom(0, d, length, through) :
        d \in {0, 1, MAX_DEPTH - 1, MAX_DEPTH, MAX_DEPTH + 1, MaxChain},
        length \in {MAX_DEPTH + 1, MaxChain},
        through \in BOOLEAN}

\* the depths the finder is called at: the first, the last two within the
\* bound and the first beyond it
Depths == {0, MAX_DEPTH - 1, MAX_DEPTH, MAX_DEPTH + 1}

Schemas ==
    {Undefined, Null, Str("email"), Str(""), Num(0), Num(1), Bool(TRUE), Bool(FALSE),
     EmptyObj, StringSchema, EmailSchema, TokenSchema, BothSchema, IdSchema}
    \cup FreeFormSchemas
    \cup MalformedSchemas
    \cup {Shared(i) : i \in 1..Len(Heap)}

\* the schemas the finder is called with from outside
FinderSchemas == Schemas \cup ChainSchemas \cup DynamicSchemas \cup OpenSchemas

\* {content: {"application/json": {schema: schema}}}
Json(schema) == O1("content", O1("application/json", O1("schema", schema)))

UserRef == O1("$ref", Str("#/components/schemas/User"))

\* The operations documents are made of
Operation ==
    <<  \* 1: one tag, one response, requestBody null
        O3("tags", Arr(<<Str("auth")>>),
           "requestBody", Null,
           "responses", O1("200", Json(EmailSchema))),
        \* 2: two tags, two responses, two media types, a request body
        O3("tags", Arr(<<Str("auth"), Str("users")>>),
           "requestBody", Json(EmailSchema),
           "responses", O2("200", Json(TokenSchema),
                           "404", O1("content", O2("application/json", O1("schema", EmailSchema),
                                                   "application/xml", O1("schema", IdSchema))))),
        \* 3: tags absent
        O2("requestBody", Json(TokenSchema),
           "responses", O1("200", Json(BothSchema))),
        \* 4: tags empty
        O3("tags", Arr(<<>>),
           "requestBody", Json(EmailSchema),
           "responses", O1("200", Json(EmailSchema))),
        \* 5: the tag "default", a free-form response
        O3("tags", Arr(<<Str("default")>>),
           "requestBody", Json(TokenSchema),
           "responses", O1("200", Json(FreeForm))),
        \* 6: media-type entries without a value
        O3("tags", Arr(<<Str("auth")>>),
           "requestBody", O1("content", O1("application/json", Null)),
           "responses", O1("200", O1("content", O1("application/json", Null)))),
        \* 7: tags null; responses and a request body with parts absent or null
        O3("tags", Null,
           "requestBody", O1("content", Null),
           "responses", Obj(<<"200", "201", "204", "500">>,
                            <<Null, O1("content", O1("application/json", O1("schema", Null))),
                              EmptyObj, O1("content", O1("application/json", EmptyObj))>>)),
        \* 8: a repeated tag, a cyclic request schema, no responses
        O2("tags", Arr(<<Str("users"), Str("users")>>),
           "requestBody", Json(Shared(1))),
        \* 9: schemas given by reference
        O3("tags", Arr(<<Str("users")>>),
           "requestBody", Json(O1("properties", O1("user", UserRef))),
           "responses", O1("200", Json(UserRef)))
    >>

\* components of every document
Components ==
    O1("schemas",
       O2("User", EmailSchema,
          "Node", O1("properties",
                     O2("next", O1("$ref", Str("#/components/schemas/Node")),
                        "token", StringSchema))))

\* A document that has not been dereferenced
RefDocument ==
    O3("openapi", Str("3.0.0"), "paths", EmptyObj, "components", Components)

Ref(ref) == O1("$ref", Str(ref))

\* Schemas with references, resolvable and not, for the $ref-resolving finder
RefSchemas ==
    {UserRef,
     Ref("#/components/schemas/Node"),
     Ref("#/components/schemas/Missing"),
     Ref("#/components/missing/User"),
     Ref("components/schemas/User"),
     O2("$ref", Str("#/components/schemas/Missing"), "properties", O1("token", StringSchema)),
     O2("$ref", Str("#/components/schemas/User"), "properties", O1("token", StringSchema)),
     O2("$ref", Num(1), "properties", O1("token", StringSchema)),
     O1("properties", O1("user", UserRef)),
     O1("items", Ref("#/components/schemas/Node")),
     EmailSchema, FreeForm, Null}

\* Where a document may have an operation: <<path, method>>, in document order
Slots == << <<"/b", "get">>, <<"/a", "get">>, <<"/a", "post">> >>

MaxOperations == 2

\* The document with Operation[placed[i]] at Slots[i], for i in the domain of placed
Document(placed) ==
    LET used == {i \in 1..Len(Slots) : i \in DOMAIN placed}
        pathOf(i) == Slots[i][1]
        firstOf(path) == CHOOSE i \in used : pathOf(i) = path /\ \A j \in used : pathOf(j) = path => i <= j
        \* the slots that open a path, in document order
        openers == SelectSeq([i \in 1..Len(Slots) |-> i],
                             LAMBDA i : i \in used /\ firstOf(pathOf(i)) = i)
        slotsOf(path) == SelectSeq([i \in 1..Len(Slots) |-> i],
                                   LAMBDA i : i \in used /\ pathOf(i) = path)
        PathItem(path) ==
            Obj([n \in 1..Len(slotsOf(path)) |-> Slots[slotsOf(path)[n]][2]],
                [n \in 1..Len(slotsOf(path)) |-> Operation[placed[slotsOf(path)[n]]]])
    IN  O3("openapi", Str("3.0.0"),
           "paths", Obj([n \in 1..Len(openers) |-> pathOf(openers[n])],
                        [n \in 1..Len(openers) |-> PathItem(pathOf(openers[n]))]),
           "components", Components)

Placements ==
    UNION {[used -> 1..Len(Operation)] :
            used \in {u \in SUBSET (1..Len(Slots)) : Cardinality(u) <= MaxOperations}}

\* Documents with parts missing
NoPaths == O2("openapi", Str("3.0.0"), "components", Components)
NullPaths == O2("openapi", Str("3.0.0"), "paths", Null)
NullPathItem ==
    O2("openapi", Str("3.0.0"),
       "paths", O2("/b", Null, "/a", O2("get", Null, "post", Operation[1])))

\* A document whose paths are not in order, one of them a prefix of another
\* and one with two operations
ThreePaths ==
    O2("openapi", Str("3.0.0"),
       "paths", O3("/b", O1("get", Operation[2]),
                   "/a/c", O1("get", Operation[2]),
                   "/a", O2("get", Operation[2], "post", Operation[8])))

\* A document with a path item that has no operation under a scanned method
TraceOnly ==
    O2("openapi", Str("3.0.0"),
       "paths", O2("/b", O2("trace", Operation[2], "parameters", Arr(<<>>)),
                   "/a", O1("get", Operation[1])))

Documents ==
    {Document(placed) : placed \in Placements}
        \cup {NoPaths, NullPaths, NullPathItem, ThreePaths, TraceOnly}

\* What a library call gives: it throws, or returns the value
Throws == [throws |-> TRUE]
Returns(value) == [throws |-> FALSE] @@ value

\* The documents main is run on: without paths, with paths null, with
\* operations, with references, and one a scan raises on
MainDocuments ==
    {NoPaths, NullPaths, TraceOnly, ThreePaths, Document(1 :> 9), Document(2 :> 6)}

\* bundle(inputFile, ...): it throws, or returns nothing, a text or a document
BundleResults ==
    {Throws, Returns([value |-> Undefined]), Returns([value |-> Str("openapi")])}
        \cup {Returns([value |-> openApi]) : openApi \in MainDocuments}

\* validate(bundleResult): it throws, or returns { valid, specification }
ValidateResults(bundleResult) ==
    {Throws}
        \cup {Returns([valid |-> valid, specification |-> specification]) :
                valid \in BOOLEAN, specification \in {Undefined, bundleResult}}

\* dereference(openApi): it throws, or returns { specification }
DereferenceResults(openApi) ==
    {Throws}
        \cup {Returns([specification |-> specification]) :
                specification \in {Undefined, NoPaths, openApi, ThreePaths}}

\* args.responseFields and args.requestFields
MainArgs ==
    [responseFields : {Undefined, Arr(<<>>), Arr(<<Str("email")>>)},
     requestFields : {Undefined, Arr(<<Str("token"), Str("email")>>)}]

Init ==
    /\ call = [op |-> "none"]
    /\ ret = [raised |-> FALSE]
    /\ stack = <<>>

\* findFieldsInSchema(schema, targetFields, depth) called from outside
CallFindFieldsInSchema ==
    /\ call.op = "none"
    /\ \E schema \in FinderSchemas, targetFields \in FinderTargetLists, depth \in Depths :
        /\ call' = [op |-> "findFieldsInSchema", schema |-> schema,
                    targetFields |-> targetFields, depth |-> depth]
        /\ ret' = IF FindRaises(Val(schema), targetFields, depth)
                  THEN Raised
                  ELSE [raised |-> FALSE,
                        fields |-> FindFieldsInSchema(Val(schema), targetFields, depth)]
    /\ UNCHANGED stack

\* findFieldsInSchema(schema, targetFields, 0, debug, context)
CallFindFieldsInSchemaDebug ==
    /\ call.op = "none"
    /\ \E schema \in Schemas, targetFields \in TargetLists, logging \in Loggings :
        /\ call' = [op |-> "findFieldsInSchemaDebug", schema |-> schema,
                    targetFields |-> targetFields, depth |-> 0,
                    debug |-> logging[1], context |-> logging[2]]
        /\ ret' = IF FindRaises(Val(schema), targetFields, 0)
                  THEN Raised
                  ELSE [raised |-> FALSE]
                        @@ DebugFindFieldsInSchema(Val(schema), targetFields, 0,
                                                   logging[1], logging[2])
    /\ UNCHANGED stack

\* parseArgs() of simple-generate-types.ts
CallParseArgs ==
    /\ call.op = "none"
    /\ \E options \in Options :
        /\ call' = [op |-> "parseArgs", options |-> options]
        /\ ret' = ParseArgs(options)
    /\ UNCHANGED stack

\* main() of generate-types.ts
CallMain ==
    /\ call.op = "none"
    /\ \E bundleResult \in BundleResults, args \in MainArgs :
        \E validateResult \in ValidateResults(IF bundleResult.throws THEN Undefined
                                              ELSE bundleResult.value) :
        \E dereferenceResult \in DereferenceResults(IF bundleResult.throws THEN Undefined
                                                    ELSE bundleResult.value) :
            /\ call' = [op |-> "main", bundleResult |-> bundleResult,
                        validateResult |-> validateResult,
                        dereferenceResult |-> dereferenceResult, args |-> args]
            /\ \E loaded \in {Loads(bundleResult, validateResult)} :
               \E openApi \in {AfterDereference(loaded, dereferenceResult)} :
                    ret' = IF MissingPaths(loaded) THEN Exit1(loaded)
                           ELSE Generate(openApi, args)
    /\ UNCHANGED stack

\* extractGroupPaths(openApi)
CallExtractGroupPaths ==
    /\ call.op = "none"
    /\ \E openApi \in Documents :
        /\ call' = [op |-> "extractGroupPaths", openApi |-> openApi]
        /\ ret' = [raised |-> FALSE, groupPaths |-> ExtractGroupPaths(openApi)]
    /\ UNCHANGED stack

\* extractResponseFieldPaths(openApi, targetFields)
CallExtractResponseFieldPaths ==
    /\ call.op = "none"
    /\ \E openApi \in Documents, targetFields \in ScanTargetLists :
        /\ call' = [op |-> "extractResponseFieldPaths", openApi |-> openApi,
                    targetFields |-> targetFields]
        /\ ret' = ExtractResponseFieldPaths(openApi, targetFields)
    /\ UNCHANGED stack

\* extractRequestFieldPaths(openApi, targetFields)
CallExtractRequestFieldPaths ==
    /\ call.op = "none"
    /\ \E openApi \in Documents, targetFields \in ScanTargetLists :
        /\ call' = [op |-> "extractRequestFieldPaths", openApi |-> openApi,
                    targetFields |-> targetFields]
        /\ ret' = ExtractRequestFieldPaths(openApi, targetFields)
    /\ UNCHANGED stack

\* findFieldsInSchema(schema, targetFields) of simple-generate-types.ts
CallSimpleFindFieldsInSchema ==
    /\ call.op = "none"
    /\ \E schema \in RefSchemas, targetFields \in TargetLists, depth \in {0, MAX_DEPTH} :
        /\ call' = [op |-> "simpleFindFieldsInSchema", schema |-> schema,
                    targetFields |-> targetFields, depth |-> depth, openApiDoc |-> RefDocument]
        /\ ret' = IF SimpleFindRaises(schema, targetFields, depth, RefDocument)
                  THEN Raised
                  ELSE [raised |-> FALSE,
                        fields |-> SimpleFindFieldsInSchema(schema, targetFields, depth,
                                                            RefDocument)]
    /\ UNCHANGED stack

(***************************************************************************)
(* findFieldsInSchema of generate-types.ts executed one step at a time.    *)
(***************************************************************************)
Frame(schema, depth) == [schema |-> schema, depth |-> depth, next |-> 1, foundFields |-> <<>>]
Top == stack[Len(stack)]
BodyOf(frame) == Body(frame.schema, call.targetFields, frame.depth)
Advance(frame, fields) ==
    [frame EXCEPT !.next = @ + 1, !.foundFields = @ \o fields]

\* the outermost invocation begins
WalkCall ==
    /\ call.op = "none"
    /\ \E schema \in Schemas, targetFields \in TargetLists :
        /\ call' = [op |-> "walk", schema |-> schema, targetFields |-> targetFields]
        /\ stack' = <<Frame(Val(schema), 0)>>
    /\ ret' = [raised |-> FALSE]

\* A push that lands on the target list of the caller
WalkPushOntoTargets ==
    /\ call.op = "walk" /\ stack # <<>>
    /\ Top.next <= Len(BodyOf(Top))
    /\ ~BodyOf(Top)[Top.next].visit
    /\ stack' = [stack EXCEPT ![Len(stack)] = Advance(@, <<>>)]
    /\ call' = [call EXCEPT !.targetFields = @ \o BodyOf(Top)[Top.next].fields]
    /\ UNCHANGED ret

\* the running invocation pushes names onto its foundFields
WalkPush ==
    /\ call.op = "walk" /\ stack # <<>>
    /\ Top.next <= Len(BodyOf(Top))
    /\ ~BodyOf(Top)[Top.next].visit
    /\ stack' = [stack EXCEPT ![Len(stack)] = Advance(@, BodyOf(Top)[Top.next].fields)]
    /\ UNCHANGED <<call, ret>>

\* the running invocation calls findFieldsInSchema(child, targetFields, depth + 1)
WalkDescend ==
    /\ call.op = "walk" /\ stack # <<>>
    /\ Top.next <= Len(BodyOf(Top))
    /\ BodyOf(Top)[Top.next].visit
    /\ stack' = Append(stack, Frame(BodyOf(Top)[Top.next].child, Top.depth + 1))
    /\ UNCHANGED <<call, ret>>

\* the running invocation returns [...new Set(foundFields)] to its caller
WalkReturn ==
    /\ call.op = "walk" /\ stack # <<>>
    /\ Top.next > Len(BodyOf(Top))
    /\ IF Len(stack) = 1
       THEN /\ stack' = <<>>
            /\ ret' = [raised |-> FALSE, fields |-> Dedupe(Top.foundFields)]
       ELSE /\ stack' = [SubSeq(stack, 1, Len(stack) - 1) EXCEPT
                            ![Len(stack) - 1] = Advance(@, Dedupe(Top.foundFields))]
            /\ UNCHANGED ret
    /\ UNCHANGED call

(***************************************************************************)
(* findFieldsInSchema of unnamed/part_000 and part_001 executed one step   *)
(* at a time.  The engine's call stack holds MaxStack invocations; one     *)
(* more raises a RangeError, which nothing in the finder catches.          *)
(***************************************************************************)
MaxStack == 12

YamlFrame(schema) == [schema |-> schema, next |-> 1, foundFields |-> <<>>]
YamlBodyOf(frame) == YamlBody(frame.schema, call.targetFields)

\* the outermost invocation begins
YamlWalkCall ==
    /\ call.op = "none"
    /\ \E schema \in YamlSchemas, targetFields \in TargetLists :
        /\ call' = [op |-> "yamlWalk", schema |-> schema, targetFields |-> targetFields]
        /\ stack' = <<YamlFrame(Val(schema))>>
    /\ ret' = [raised |-> FALSE]

\* the running invocation pushes names onto its foundFields
YamlWalkPush ==
    /\ call.op = "yamlWalk" /\ stack # <<>>
    /\ Top.next <= Len(YamlBodyOf(Top))
    /\ ~YamlBodyOf(Top)[Top.next].visit
    /\ stack' = [stack EXCEPT ![Len(stack)] = Advance(@, YamlBodyOf(Top)[Top.next].fields)]
    /\ UNCHANGED <<call, ret>>

\* the running invocation calls findFieldsInSchema(child, targetFields)
YamlWalkDescend ==
    /\ call.op = "yamlWalk" /\ stack # <<>>
    /\ Top.next <= Len(YamlBodyOf(Top))
    /\ YamlBodyOf(Top)[Top.next].visit
    /\ Len(stack) < MaxStack
    /\ stack' = Append(stack, YamlFrame(YamlBodyOf(Top)[Top.next].child))
    /\ UNCHANGED <<call, ret>>

\* the call stack is full and the running invocation calls again: RangeError
YamlWalkOverflow ==
    /\ call.op = "yamlWalk" /\ stack # <<>>
    /\ Top.next <= Len(YamlBodyOf(Top))
    /\ YamlBodyOf(Top)[Top.next].visit
    /\ Len(stack) = MaxStack
    /\ stack' = <<>>
    /\ ret' = Raised
    /\ UNCHANGED call

\* the running invocation returns [...new Set(foundFields)] to its caller
YamlWalkReturn ==
    /\ call.op = "yamlWalk" /\ stack # <<>>
    /\ Top.next > Len(YamlBodyOf(Top))
    /\ IF Len(stack) = 1
       THEN /\ stack' = <<>>
            /\ ret' = [raised |-> FALSE, fields |-> Dedupe(Top.foundFields)]
       ELSE /\ stack' = [SubSeq(stack, 1, Len(stack) - 1) EXCEPT
                            ![Len(stack) - 1] = Advance(@, Dedupe(Top.foundFields))]
            /\ UNCHANGED ret
    /\ UNCHANGED call

\* the caller has the result; the next call may begin
Return ==
    /\ call.op # "none"
    /\ stack = <<>>
    /\ call' = [op |-> "none"]
    /\ ret' = [raised |-> FALSE]
    /\ UNCHANGED stack

Next ==
    \/ CallFindFieldsInSchema
    \/ CallFindFieldsInSchemaDebug
    \/ CallSimpleFindFieldsInSchema
    \/ WalkCall
    \/ WalkPush
    \/ WalkDescend
    \/ WalkReturn
    \/ YamlWalkCall
    \/ YamlWalkPush
    \/ YamlWalkDescend
    \/ YamlWalkOverflow
    \/ YamlWalkReturn
    \/ CallParseArgs
    \/ CallMain
    \/ CallExtractGroupPaths
    \/ CallExtractResponseFieldPaths
    \/ CallExtractRequestFieldPaths
    \/ Return

Spec == Init /\ [][Next]_vars

\* A call, once begun, runs to its end: the code is synchronous
FairSpec == Spec /\ WF_vars(WalkPush \/ WalkDescend \/ WalkReturn)

(***************************************************************************)
(* Vocabulary of the properties, stated on documents and not through the   *)
(* scanners.                                                               *)
(***************************************************************************)
Methods == SeqToSet(HTTP_METHODS)
HasPaths(openApi) == Truthy(Get(openApi, "paths"))
PathsOf(openApi) == SeqToSet(Keys(Get(openApi, "paths")))
OperationAt(openApi, path, method) == Get(Get(Get(openApi, "paths"), path), method)

\* the schemas of a content mapping
SchemasOfContent(content) ==
    {Get(Get(content, mediaType), "schema") : mediaType \in SeqToSet(Keys(content))}

\* the schemas of all responses of an operation: every status code, every media type
ResponseSchemas(operation) ==
    UNION {SchemasOfContent(Get(Get(Get(operation, "responses"), code), "content")) :
            code \in SeqToSet(Keys(Get(operation, "responses")))}

\* the schemas of the request body of an operation: every media type
RequestSchemas(operation) ==
    SchemasOfContent(Get(Get(operation, "requestBody"), "content"))

SchemasIn(operation, mode) ==
    IF mode = "response" THEN ResponseSchemas(operation) ELSE RequestSchemas(operation)

\* the operation has a schema, in its responses or its request body, in which
\* the finder reports the field
Yields(operation, mode, field, targetFields) ==
    \E schema \in SchemasIn(operation, mode) :
        field \in SeqToSet(FindFieldsInSchema(schema, targetFields, 0))

TagsOf(operation) ==
    LET tags == Get(operation, "tags") IN
    IF tags.k = "array" THEN SeqToSet(Strings(tags)) ELSE {}

\* tags absent (or null), or an empty sequence
Untagged(operation) == Truthy(operation) /\ TagsOf(operation) = {}

IsScan == call.op \in {"extractResponseFieldPaths", "extractRequestFieldPaths"}
Mode == IF call.op = "extractResponseFieldPaths" THEN "response" ELSE "request"
Returned == IsScan /\ HasPaths(call.openApi) /\ ~ret.raised

\* the paths listed for a field and a group ({} when the group is no key)
Listed(field, group) ==
    IF group \in DOMAIN ret.groupFieldPaths[field]
    THEN SeqToSet(ret.groupFieldPaths[field][group])
    ELSE {}

\* C1: fieldPaths[f] of extractResponseFieldPaths lists exactly the paths at
\* which an operation under one of the seven methods has a response, of any
\* status code and media type, whose schema yields f.
C1_FieldPathsExact ==
    (call.op = "extractResponseFieldPaths" /\ Returned) =>
        \A field \in SeqToSet(call.targetFields) :
            SeqToSet(ret.fieldPaths[field]) =
                {path \in PathsOf(call.openApi) :
                    \E method \in Methods :
                        Yields(OperationAt(call.openApi, path, method), "response",
                               field, call.targetFields)}

\* a scan in which a field is listed at two paths, one of them only through a
\* second response of its operation
C1_Witness ==
    /\ call.op = "extractResponseFieldPaths" /\ Returned
    /\ call.targetFields = <<"email", "token">>
    /\ ret.fieldPaths["email"] = <<"/a", "/b">>
    /\ ret.fieldPaths["token"] = <<"/a">>
    /\ \E method \in Methods :
        /\ Yields(OperationAt(call.openApi, "/a", method), "response", "email", call.targetFields)
        /\ Len(Keys(Get(OperationAt(call.openApi, "/a", method), "responses"))) = 2

\* C2: a finding of f in an operation with a non-empty tag list puts the path
\* under every tag of the operation, and a path is under groupFieldPaths[f][t]
\* only if an operation at it that carries t (or is untagged, for the default
\* group) yielded f.
C2_GroupFanOut ==
    Returned =>
        \A field \in SeqToSet(call.targetFields) :
            /\ \A path \in PathsOf(call.openApi), method \in Methods :
                LET operation == OperationAt(call.openApi, path, method) IN
                (Yields(operation, Mode, field, call.targetFields)) =>
                    \A tag \in TagsOf(operation) : path \in Listed(field, tag)
            /\ \A group \in DOMAIN ret.groupFieldPaths[field] :
                \A path \in Listed(field, group) :
                    \E method \in Methods :
                        LET operation == OperationAt(call.openApi, path, method) IN
                        /\ Yields(operation, Mode, field, call.targetFields)
                        /\ \/ group \in TagsOf(operation)
                           \/ group = DEFAULT_GROUP /\ Untagged(operation)

\* an operation with two tags yields a field: its path is under both
C2_Witness ==
    /\ Returned
    /\ \E path \in PathsOf(call.openApi), method \in Methods :
        LET operation == OperationAt(call.openApi, path, method) IN
        /\ TagsOf(operation) = {"auth", "users"}
        /\ Yields(operation, Mode, "email", call.targetFields)
        /\ path \in Listed("email", "auth") \cap Listed("email", "users")

\* C3: an operation with no tags (absent, or an empty sequence) puts the path
\* of each of its findings under groupFieldPaths[f]["default"].
C3_UntaggedInDefault ==
    Returned =>
        \A field \in SeqToSet(call.targetFields) :
            \A path \in PathsOf(call.openApi), method \in Methods :
                LET operation == OperationAt(call.openApi, path, method) IN
                (Untagged(operation) /\ Yields(operation, Mode, field, call.targetFields)) =>
                    path \in Listed(field, DEFAULT_GROUP)

\* the paths with an operation that declares the tag
TaggedPaths(openApi, tag) ==
    {path \in PathsOf(openApi) :
        \E method \in Methods : tag \in TagsOf(OperationAt(openApi, path, method))}

\* the paths with an operation whose tags are absent or empty
UntaggedPaths(openApi) ==
    {path \in PathsOf(openApi) :
        \E method \in Methods : Untagged(OperationAt(openApi, path, method))}

AllTags(openApi) ==
    UNION {TagsOf(OperationAt(openApi, path, method)) :
            path \in PathsOf(openApi), method \in Methods}

\* the paths extractGroupPaths returned for a group ({} when it is no key)
Grouped(group) ==
    IF group \in DOMAIN ret.groupPaths THEN SeqToSet(ret.groupPaths[group]) ELSE {}

\* the document with requestBody and responses removed from every operation
RECURSIVE WithoutBodies(_)
WithoutBodies(v) ==
    IF v.k # "object" THEN v
    ELSE LET kept == SelectSeq(v.keys, LAMBDA key : key \notin {"requestBody", "responses", "components"})
         IN  Obj(kept, [i \in 1..Len(kept) |-> WithoutBodies(Get(v, kept[i]))])

C5_NoPaths ==
    ((IsScan \/ call.op = "extractGroupPaths") /\ ~HasPaths(call.openApi)) =>
        /\ ~ret.raised
        /\ call.op = "extractGroupPaths" => ret.groupPaths = EmptyMapping
        /\ IsScan =>
            /\ DOMAIN ret.fieldPaths = SeqToSet(call.targetFields)
            /\ \A field \in SeqToSet(call.targetFields) : ret.fieldPaths[field] = <<>>

\* a scan of a document without paths for two target fields
C5_Witness ==
    /\ IsScan
    /\ ~HasPaths(call.openApi)
    /\ call.targetFields = <<"email", "token">>
    /\ ret.fieldPaths["email"] = <<>>

\* the nodes the finder descends to from an object node
ChildrenOf(node) ==
    IF node.k # "object" THEN {}
    ELSE LET facet(name) == Get(node, name)
             values(v) == IF v.k = "object" THEN SeqToSet(Values(v)) ELSE {}
             members(v) == IF v.k = "array" THEN {Val(v.items[i]) : i \in 1..Len(v.items)} ELSE {}
         IN  values(facet("properties")) \cup {facet("items")}
                \cup (IF facet("additionalProperties").k = "object"
                      THEN {facet("additionalProperties")} ELSE {})
                \cup members(facet("allOf")) \cup members(facet("oneOf"))
                \cup members(facet("anyOf")) \cup values(facet("patternProperties"))

\* the nodes at most n descents away from the nodes of the set
RECURSIVE Within(_, _)
Within(nodes, n) ==
    IF n = 0 THEN nodes
    ELSE Within(nodes \cup UNION {ChildrenOf(node) : node \in nodes}, n - 1)

\* the target fields that are own keys of the properties of the node
DirectKeys(node, targetFields) ==
    IF node.k = "object" /\ Get(node, "properties").k = "object"
    THEN {field \in SeqToSet(targetFields) : InSeq(Get(node, "properties").keys, field)}
    ELSE {}

\* whether the node is its own descendant
Cyclic(node) == node \in Within(ChildrenOf(node), MAX_DEPTH)

WalkDone == call.op = "walk" /\ stack = <<>>

\* C6: findFieldsInSchema terminates on every schema graph, cyclic ones
\* included: the invocations nest at most MAX_DEPTH + 2 deep, each at the depth
\* of its nesting, none beyond the end of its body; and the call returns every
\* target field that is a direct properties key of a node within the bound.
C6_WalkBounded ==
    call.op = "walk" =>
        /\ Len(stack) <= MAX_DEPTH + 2
        /\ \A i \in 1..Len(stack) :
            /\ stack[i].depth = i - 1
            /\ stack[i].next <= Len(Body(stack[i].schema, call.targetFields, i - 1)) + 1
        /\ WalkDone =>
            /\ SeqToSet(ret.fields) = SeqToSet(FindFieldsInSchema(Val(call.schema), call.targetFields, 0))
            /\ \A node \in Within({Val(call.schema)}, MAX_DEPTH) :
                DirectKeys(node, call.targetFields) \subseteq SeqToSet(ret.fields)

\* C6, as a progress property of FairSpec: a call that has begun returns.
C6_WalkReturns == (call.op = "walk" /\ stack # <<>>) ~> WalkDone

\* the call on a node that is its own properties.self has returned, with the
\* field of the node
C6_Witness ==
    /\ WalkDone
    /\ call.schema = Shared(1)
    /\ Cyclic(Val(call.schema))
    /\ call.targetFields = <<"email", "token">>
    /\ ret.fields = <<"email">>

\* the document with every resolvable $ref under paths replaced by its target
RECURSIVE Dereferenced(_, _)
Dereferenced(v, openApi) ==
    IF v.k = "array" THEN Arr([i \in 1..Len(v.items) |-> Dereferenced(v.items[i], openApi)])
    ELSE IF v.k # "object" THEN v
    ELSE IF Get(v, "$ref").k = "string" /\ Truthy(ResolveRef(openApi, Get(v, "$ref")))
    THEN Dereferenced(ResolveRef(openApi, Get(v, "$ref")), openApi)
    ELSE Obj(v.keys, [i \in 1..Len(v.keys) |->
                        IF v.keys[i] = "components" THEN v.vals[i]
                        ELSE Dereferenced(v.vals[i], openApi)])

\* whether a $ref occurs in the value
RECURSIVE HasRef(_)
HasRef(v) ==
    IF v.k = "array" THEN \E i \in 1..Len(v.items) : HasRef(v.items[i])
    ELSE IF v.k # "object" THEN FALSE
    ELSE InSeq(v.keys, "$ref") \/ \E i \in 1..Len(v.keys) : HasRef(v.vals[i])

\* C7: on a document that has not been dereferenced, the scanners of
\* generate-types.ts return what they return on the document with every $ref
\* replaced by its target.
C7_RefsAsDereferenced ==
    (IsScan /\ HasPaths(call.openApi) /\ HasRef(Get(call.openApi, "paths"))) =>
        ret = IF call.op = "extractResponseFieldPaths"
              THEN ExtractResponseFieldPaths(Dereferenced(call.openApi, call.openApi),
                                             call.targetFields)
              ELSE ExtractRequestFieldPaths(Dereferenced(call.openApi, call.openApi),
                                            call.targetFields)

\* The references of the form #/s1/.../sn among the inputs, with their segments
SegmentsOf(ref) ==
    CASE ref = "#/components/schemas/User" -> <<"components", "schemas", "User">>
      [] ref = "#/components/schemas/Node" -> <<"components", "schemas", "Node">>
      [] ref = "#/components/schemas/Missing" -> <<"components", "schemas", "Missing">>
      [] ref = "#/components/missing/User" -> <<"components", "missing", "User">>
      [] OTHER -> <<>>

\* whether every segment exists along the walk from the value
RECURSIVE AllExist(_, _)
AllExist(v, segments) ==
    \/ segments = <<>>
    \/ /\ v.k = "object"
       /\ InSeq(v.keys, Head(segments))
       /\ AllExist(Get(v, Head(segments)), Tail(segments))

\* the value at the end of the segments
RECURSIVE Target(_, _)
Target(v, segments) ==
    IF segments = <<>> THEN v ELSE Target(Get(v, Head(segments)), Tail(segments))

\* the node without its $ref
WithoutRef(node) ==
    LET kept == SelectSeq(node.keys, LAMBDA key : key # "$ref")
    IN  Obj(kept, [i \in 1..Len(kept) |-> node.vals[IndexOf(node.keys, kept[i])]])

IsSimpleCallOnRef ==
    /\ call.op = "simpleFindFieldsInSchema"
    /\ call.schema.k = "object"
    /\ Get(call.schema, "$ref").k = "string"
    /\ SegmentsOf(Get(call.schema, "$ref").s) # <<>>

\* C8: with a $ref "#/s1/.../sn" whose segments all exist, the finder of
\* simple-generate-types.ts reports every field it reports for the resolved
\* node at depth + 1; with a segment missing, the $ref contributes nothing, no
\* error is raised, and the other facets of the node are examined all the same.
C8_RefResolution ==
    IsSimpleCallOnRef =>
        LET segments == SegmentsOf(Get(call.schema, "$ref").s)
            others == SeqToSet(SimpleFindFieldsInSchema(WithoutRef(call.schema),
                        call.targetFields, call.depth, call.openApiDoc))
            resolved == SeqToSet(SimpleFindFieldsInSchema(Target(call.openApiDoc, segments),
                        call.targetFields, call.depth + 1, call.openApiDoc))
        IN  /\ ~ret.raised
            /\ AllExist(call.openApiDoc, segments) =>
                /\ resolved \subseteq SeqToSet(ret.fields)
                /\ SeqToSet(ret.fields) = resolved \cup others
            /\ ~AllExist(call.openApiDoc, segments) => SeqToSet(ret.fields) = others

\* a resolvable $ref beside a properties facet: both contribute
C8_Witness ==
    /\ IsSimpleCallOnRef
    /\ AllExist(call.openApiDoc, SegmentsOf(Get(call.schema, "$ref").s))
    /\ InSeq(call.schema.keys, "properties")
    /\ call.depth = 0
    /\ ret.fields = <<"email", "token">>

\* C9: the scanners never raise, whatever is absent or null in the document.
C9_ScanNeverRaises == IsScan => ~ret.raised

\* C10: findFieldsInSchema never raises; null, undefined and every value that
\* is no object give the empty list, and an object schema with facets of
\* unexpected types gives a list.
C10_FinderNeverRaises ==
    call.op = "findFieldsInSchema" =>
        /\ ~ret.raised
        /\ Val(call.schema).k \notin {"object", "array"} => ret.fields = <<>>

\* the finder has returned for a schema whose properties is a string
C10_Witness ==
    /\ call.op = "findFieldsInSchema"
    /\ call.schema \in MalformedSchemas
    /\ Get(call.schema, "properties").k = "string"
    /\ call.targetFields = <<"email", "token">>
    /\ ~ret.raised
    /\ ret.fields = <<>>

\* an object node with type "object" and none of properties,
\* additionalProperties, patternProperties
IsFreeFormNode(node) ==
    /\ node.k = "object"
    /\ Get(node, "type") = Str("object")
    /\ ~InSeq(node.keys, "properties")
    /\ ~InSeq(node.keys, "additionalProperties")
    /\ ~InSeq(node.keys, "patternProperties")

IsFinderCall == call.op = "findFieldsInSchema" /\ ~ret.raised

\* C11: a call of findFieldsInSchema that reaches, within the depth bound, a
\* node with type "object" and none of properties, additionalProperties,
\* patternProperties returns every name of the target list.
C11_FreeFormReportsAll ==
    (IsFinderCall /\ call.depth <= MAX_DEPTH) =>
        \A node \in Within({Val(call.schema)}, MAX_DEPTH - call.depth) :
            IsFreeFormNode(node) =>
                SeqToSet(call.targetFields) \subseteq SeqToSet(ret.fields)

\* the call at the last depth within the bound, on an object without
\* properties that has items, has returned both target names
C11_Witness ==
    /\ IsFinderCall
    /\ call.depth = MAX_DEPTH
    /\ IsFreeFormNode(call.schema)
    /\ InSeq(call.schema.keys, "items")
    /\ call.targetFields = <<"token", "email">>
    /\ ret.fields = <<"token", "email">>

\* a schema without facets: {} or {type: t} for a t other than "object"
IsLeaf(v) ==
    /\ v.k = "object"
    /\ v.keys \in {<<>>, <<"type">>}
    /\ Get(v, "type") # Str("object")

\* a node whose only facet is properties, with leaves for values
OnlyLeafProperties(node) ==
    /\ node.k = "object"
    /\ node.keys = <<"properties">>
    /\ Get(node, "properties").k = "object"
    /\ \A v \in SeqToSet(Values(Get(node, "properties"))) : IsLeaf(v)

\* C12: for a node whose only facet is properties, with leaves for values,
\* findFieldsInSchema at depth 0 reports a target name exactly when it is an
\* own key of properties.
C12_OwnKeysOnly ==
    (IsFinderCall /\ call.depth = 0 /\ OnlyLeafProperties(Val(call.schema))) =>
        \A field \in SeqToSet(call.targetFields) :
            InSeq(ret.fields, field) <=> InSeq(Get(Val(call.schema), "properties").keys, field)

\* a < b in lexicographic order of the code units: a is a proper prefix of b,
\* or a has the lesser unit at the first position where they differ
LexLess(a, b) ==
    LET u == CodeUnits(a)
        v == CodeUnits(b)
    IN  \E k \in 1..Len(v) :
            /\ \A n \in 1..(k - 1) : n <= Len(u) /\ u[n] = v[n]
            /\ (k > Len(u) \/ u[k] < v[k])

StrictlyAscending(list) == \A i \in 1..(Len(list) - 1) : LexLess(list[i], list[i + 1])

\* C13: every list of extractGroupPaths, and every list of fieldPaths and
\* groupFieldPaths of the two scanners, is strictly ascending in lexicographic
\* order: sorted and without duplicates.
C13_ListsAscending ==
    /\ (call.op = "extractGroupPaths") =>
            \A group \in DOMAIN ret.groupPaths : StrictlyAscending(ret.groupPaths[group])
    /\ (IsScan /\ ~ret.raised) =>
            \A field \in DOMAIN ret.fieldPaths :
                /\ StrictlyAscending(ret.fieldPaths[field])
                /\ \A group \in DOMAIN ret.groupFieldPaths[field] :
                        StrictlyAscending(ret.groupFieldPaths[field][group])

\* a request scan of paths declared as /b, /a/c, /a, where /a is reached
\* through two methods and, for the group users, through a repeated tag
C13_Witness ==
    /\ call.op = "extractRequestFieldPaths" /\ Returned
    /\ Keys(Get(call.openApi, "paths")) = <<"/b", "/a/c", "/a">>
    /\ Len(Keys(Get(Get(call.openApi, "paths"), "/a"))) = 2
    /\ call.targetFields = <<"email">>
    /\ ret.fieldPaths["email"] = <<"/a", "/a/c", "/b">>
    /\ ret.groupFieldPaths["email"]["users"] = <<"/a", "/a/c", "/b">>

\* the same mapping enumerated in another order, at every level: every
\* object's keys reversed, or rotated by one
Ways == {"reverse", "rotate"}

RECURSIVE Reordered(_, _)
Reordered(v, way) ==
    IF v.k = "object"
    THEN LET n == Len(v.keys)
             at(i) == IF way = "reverse" THEN n + 1 - i ELSE (i % n) + 1
         IN  Obj([i \in 1..n |-> v.keys[at(i)]],
                 [i \in 1..n |-> Reordered(v.vals[at(i)], way)])
    ELSE IF v.k = "array"
    THEN Arr([i \in 1..Len(v.items) |-> Reordered(v.items[i], way)])
    ELSE v

\* the scan of the call, made on another document
ScanOf(openApi) ==
    IF call.op = "extractResponseFieldPaths"
    THEN ExtractResponseFieldPaths(openApi, call.targetFields)
    ELSE ExtractRequestFieldPaths(openApi, call.targetFields)

\* C14: a scan of the same mapping enumerated in another order (paths,
\* methods, response codes, media types, schema properties) returns the same
\* list for every field and every (field, group); a second scan of the same
\* document returns the same lists.
C14_OrderIndependent ==
    (IsScan /\ ~ret.raised) =>
        /\ \A way \in Ways : ScanOf(Reordered(call.openApi, way)) = ret
        /\ ScanOf(call.openApi) = ret

\* a scan, with a list of three paths, of a document whose reversal and
\* rotation are other enumerations of it
C14_Witness ==
    /\ IsScan /\ Returned
    /\ Reordered(call.openApi, "reverse") # call.openApi
    /\ Reordered(call.openApi, "rotate") # Reordered(call.openApi, "reverse")
    /\ Keys(Get(Reordered(call.openApi, "reverse"), "paths")) = <<"/a", "/a/c", "/b">>
    /\ call.targetFields = <<"email", "token">>
    /\ Len(ret.fieldPaths["email"]) = 3
    /\ DOMAIN ret.groupFieldPaths["email"] = {"auth", "users"}

\* C15: what findFieldsInSchema returns does not depend on logging: the call
\* with debug and a full context returns what the call without debug and
\* with an empty context returns.
C15_LogHasNoEffect ==
    (call.op = "findFieldsInSchemaDebug" /\ ~ret.raised) =>
        /\ ret.fields = DebugFindFieldsInSchema(Val(call.schema), call.targetFields, call.depth,
                                                FALSE, EmptyObj).fields
        /\ ret.fields = DebugFindFieldsInSchema(Val(call.schema), call.targetFields, call.depth,
                                                TRUE, FullContext).fields
        /\ ret.fields = FindFieldsInSchema(Val(call.schema), call.targetFields, call.depth)

\* a call with debug and a full context has returned a field and has logged
\* it, also from a nested node
C15_Witness ==
    /\ call.op = "findFieldsInSchemaDebug" /\ ~ret.raised
    /\ call.debug /\ call.context = FullContext
    /\ ret.fields = <<"email">>
    /\ \E i \in 1..Len(ret.log) : ret.log[i].field = "email" /\ ret.log[i].nested

\* the paths whose path item has keys, none of them one of the seven methods
UnscannedPaths(openApi) ==
    {path \in PathsOf(openApi) :
        LET pathItem == Get(Get(openApi, "paths"), path) IN
        /\ pathItem.k = "object"
        /\ pathItem.keys # <<>>
        /\ SeqToSet(pathItem.keys)
                \cap {"get", "post", "put", "delete", "patch", "head", "options"} = {}}

\* C16: a path whose path item has operations only under keys outside the
\* seven methods is in no group of extractGroupPaths and in no list of
\* fieldPaths or groupFieldPaths.
C16_UnsupportedIgnored ==
    /\ (call.op = "extractGroupPaths" /\ HasPaths(call.openApi)) =>
            \A path \in UnscannedPaths(call.openApi), group \in DOMAIN ret.groupPaths :
                ~InSeq(ret.groupPaths[group], path)
    /\ Returned =>
            \A path \in UnscannedPaths(call.openApi), field \in DOMAIN ret.fieldPaths :
                /\ ~InSeq(ret.fieldPaths[field], path)
                /\ \A group \in DOMAIN ret.groupFieldPaths[field] :
                        ~InSeq(ret.groupFieldPaths[field][group], path)

\* a response scan of a document whose /b has a trace operation with a
\* response that yields token: token is listed nowhere
C16_Witness ==
    /\ call.op = "extractResponseFieldPaths" /\ Returned
    /\ UnscannedPaths(call.openApi) = {"/b"}
    /\ Yields(OperationAt(call.openApi, "/b", "trace"), "response", "token", call.targetFields)
    /\ call.targetFields = <<"email", "token">>
    /\ ret.fieldPaths["token"] = <<>>
    /\ ret.fieldPaths["email"] = <<"/a">>

FinderReturned ==
    /\ \/ call.op \in {"findFieldsInSchema", "findFieldsInSchemaDebug", "simpleFindFieldsInSchema"}
       \/ WalkDone
    /\ ~ret.raised

\* C18: the list findFieldsInSchema returns, in generate-types.ts and in
\* simple-generate-types.ts, has each name at most once.
C18_NoRepeatedField ==
    FinderReturned =>
        \A i, j \in 1..Len(ret.fields) : ret.fields[i] = ret.fields[j] => i = j

\* the call on {type: "object"}, where two rules report every target name,
\* with a target list that repeats a name
C18_Witness ==
    /\ call.op = "findFieldsInSchema" /\ ~ret.raised
    /\ call.schema = FreeForm
    /\ call.depth = 0
    /\ Len(DynamicObject(call.schema, call.targetFields)
            \o FreeFormObject(call.schema, call.targetFields)) = 2
    /\ call.targetFields = <<"email", "email">>
    /\ ret.fields = <<"email">>

\* the run is made with -i and without -o, and is not interactive
InputOnly ==
    /\ call.op = "parseArgs"
    /\ call.options.input # DEFAULT_OPENAPI_FILE
    /\ call.options.output = Undefined
    /\ ~ret.interactive

\* C19: with -i my-api and no -o, simple-generate-types writes
\* ./gen/my-api.path.ts: the input's base name without extension, followed
\* by .path.ts, under gen.
C19_OutputName ==
    InputOnly =>
        ret.outputFile =
            CodeUnits("gen") \o <<Slash>>
                \o RemoveExtension(Basename(WithYaml(CodeUnits(call.options.input))))
                \o CodeUnits(".path.ts")

\* C20: findFieldsInSchema of the generators reading the document with
\* yaml.parse terminates on every schema graph, cyclic ones included: no
\* call ends by running out of call stack.
C20_YamlWalkTerminates == call.op = "yamlWalk" => ~ret.raised

\* the values of the properties of a node
PropertyValues(node) ==
    IF node.k = "object" /\ Get(node, "properties").k = "object"
    THEN SeqToSet(Values(Get(node, "properties")))
    ELSE {}

\* the nodes at nesting depth n below the root (the root is at depth 0)
RECURSIVE NodesAt(_, _)
NodesAt(root, n) ==
    IF n = 0 THEN {root}
    ELSE UNION {PropertyValues(node) : node \in NodesAt(root, n - 1)}

\* every node is an object with no key but properties, itself an object
PropertiesOnly(root) ==
    \A n \in 0..MaxChain + 1 :
        \A node \in NodesAt(root, n) :
            /\ node.k = "object"
            /\ SeqToSet(node.keys) \subseteq {"properties"}
            /\ Get(node, "properties").k \in {"object", "undefined"}

\* the nesting depths of the nodes that have the field as a key of their properties
DepthsOfKey(root, field) ==
    {n \in 0..MaxChain + 1 : \E node \in NodesAt(root, n) : DirectKeys(node, <<field>>) # {}}

\* C21: on a schema made of nested properties only, in which the target field
\* is a direct properties key of the node at nesting depth d and of no other
\* node, findFieldsInSchema called on the root reports the field if and only
\* if d <= 10.
C21_ChainDepthCeiling ==
    (IsFinderCall /\ call.depth = 0 /\ PropertiesOnly(Val(call.schema))) =>
        \A field \in SeqToSet(call.targetFields) :
            Cardinality(DepthsOfKey(Val(call.schema), field)) = 1 =>
                (InSeq(ret.fields, field)
                    <=> \A d \in DepthsOfKey(Val(call.schema), field) : d <= MAX_DEPTH)

\* the call on a chain that has the field at depth 10 and goes on below it has
\* returned the field
C21_Witness ==
    /\ IsFinderCall /\ call.depth = 0
    /\ PropertiesOnly(call.schema)
    /\ DepthsOfKey(call.schema, "email") = {MAX_DEPTH}
    /\ NodesAt(call.schema, MaxChain) # {}
    /\ call.targetFields = <<"token", "email">>
    /\ ret.fields = <<"email">>

\* an object node that declares type "object" and has no properties
IsDynamicNode(node) ==
    /\ node.k = "object"
    /\ Get(node, "type") = Str("object")
    /\ ~InSeq(node.keys, "properties")

\* C22: a call of findFieldsInSchema that reaches, within the depth bound, a
\* node that declares type "object" and has no properties returns every name
\* of the target list, whatever the other facets of the node are.
C22_DynamicReportsAll ==
    (IsFinderCall /\ call.depth <= MAX_DEPTH) =>
        \A node \in Within({Val(call.schema)}, MAX_DEPTH - call.depth) :
            IsDynamicNode(node) =>
                \A field \in SeqToSet(call.targetFields) : InSeq(ret.fields, field)

\* the call at the last depth within the bound, on an object without
\* properties that has additionalProperties: false and patternProperties, has
\* returned both target names
C22_Witness ==
    /\ IsFinderCall
    /\ call.depth = MAX_DEPTH
    /\ IsDynamicNode(call.schema)
    /\ Get(call.schema, "additionalProperties") = Bool(FALSE)
    /\ InSeq(call.schema.keys, "patternProperties")
    /\ call.targetFields = <<"email", "token">>
    /\ ret.fields = <<"email", "token">>
\* an object node with additionalProperties === true or with a discriminator
\* that has a mapping
IsOpenNode(node) ==
    /\ node.k = "object"
    /\ \/ Get(node, "additionalProperties") = Bool(TRUE)
       \/ /\ Get(node, "discriminator").k = "object"
          /\ Get(Get(node, "discriminator"), "mapping").k = "object"

\* C23: a call of findFieldsInSchema that reaches, within the depth bound, a
\* node with additionalProperties === true or with a discriminator mapping
\* returns every name of the target list, whatever properties the node
\* declares and whatever the variants of the mapping are.
C23_OpenReportsAll ==
    (IsFinderCall /\ call.depth <= MAX_DEPTH) =>
        \A node \in Within({Val(call.schema)}, MAX_DEPTH - call.depth) :
            IsOpenNode(node) => SeqToSet(ret.fields) = SeqToSet(call.targetFields)

\* the call on a node that declares the property token and has a discriminator
\* mapping has returned both names, the declared one first
C23_Witness ==
    /\ IsFinderCall
    /\ call.depth = 0
    /\ IsOpenNode(call.schema)
    /\ DirectKeys(call.schema, call.targetFields) = {"token"}
    /\ Get(call.schema, "additionalProperties") = Undefined
    /\ call.targetFields = <<"email", "token">>
    /\ ret.fields = <<"token", "email">>
\* C24: findings propagate upward: every field findFieldsInSchema reports for
\* a child of a node (a properties value, items, an object-valued
\* additionalProperties, a member of allOf, oneOf or anyOf, a patternProperties
\* value) at depth k + 1 is reported for the node at depth k, for k < 10.
C24_FindingsPropagate ==
    (IsFinderCall /\ call.depth < MAX_DEPTH) =>
        \A child \in ChildrenOf(Val(call.schema)) :
            \A field \in SeqToSet(FindFieldsInSchema(child, call.targetFields, call.depth + 1)) :
                InSeq(ret.fields, field)

\* the call at depth 9 on a node whose only finding is in the value of its
\* second pattern has returned that finding
C24_Witness ==
    /\ IsFinderCall
    /\ call.depth = MAX_DEPTH - 1
    /\ call.schema.k = "object"
    /\ call.schema.keys = <<"patternProperties">>
    /\ call.targetFields = <<"email", "token">>
    /\ \E child \in ChildrenOf(call.schema) :
        FindFieldsInSchema(child, call.targetFields, MAX_DEPTH) = <<"email">>
    /\ ret.fields = <<"email">>
\* bundle threw or returned nothing
BundlingFailed == call.bundleResult.throws \/ ~Truthy(call.bundleResult.value)

\* the loaded document: the validated specification, or else the bundled result
Loaded ==
    IF /\ ~call.validateResult.throws
       /\ call.validateResult.valid
       /\ Truthy(call.validateResult.specification)
    THEN call.validateResult.specification
    ELSE call.bundleResult.value

\* dereference threw or gave no specification with paths
DereferencingFailed ==
    \/ call.dereferenceResult.throws
    \/ ~HasPaths(call.dereferenceResult.specification)

\* a scan main runs on the document raises
ScanRaises(openApi) ==
    \/ /\ Given(call.args.responseFields)
       /\ ExtractResponseFieldPaths(openApi, Strings(call.args.responseFields)).raised
    \/ /\ Given(call.args.requestFields)
       /\ ExtractRequestFieldPaths(openApi, Strings(call.args.requestFields)).raised

\* C25: main writes the output file only for a document that has paths: when
\* bundling fails or the loaded document (the validated one, or the bundled
\* fallback) has no paths, the run exits with status 1 and nothing is written;
\* when only dereferencing fails, generation goes on with the document as it
\* was loaded and the file is written.
C25_WrittenOnlyWithPaths ==
    call.op = "main" =>
        /\ ~ret.raised
        /\ ret.written => (ret.exit = 0 /\ ~BundlingFailed /\ HasPaths(Loaded))
        /\ (BundlingFailed \/ ~HasPaths(Loaded)) => (ret.exit = 1 /\ ~ret.written)
        /\ (~BundlingFailed /\ HasPaths(Loaded) /\ DereferencingFailed) =>
            /\ ret.openApi = Loaded
            /\ ~ScanRaises(Loaded) =>
                /\ ret.exit = 0 /\ ret.written
                /\ ret.file.groupPaths = ExtractGroupPaths(Loaded)

\* validation and dereferencing both threw on a document with references, and
\* the file has been written from the bundled document
C25_Witness ==
    /\ call.op = "main"
    /\ call.validateResult.throws /\ call.dereferenceResult.throws
    /\ call.bundleResult = Returns([value |-> Document(1 :> 9)])
    /\ Given(call.args.responseFields)
    /\ ret.written /\ ret.exit = 0
    /\ ret.openApi = Document(1 :> 9)
    /\ DOMAIN ret.file.groupPaths = {"users"}

\* the object with the key set to the value, or without the key when the
\* value is undefined
SetKey(object, key, value) ==
    LET kept == SelectSeq([i \in 1..Len(object.keys) |-> i], LAMBDA i : object.keys[i] # key)
        keys == [n \in 1..Len(kept) |-> object.keys[kept[n]]]
        vals == [n \in 1..Len(kept) |-> object.vals[kept[n]]]
    IN  IF value = Undefined THEN Obj(keys, vals)
        ELSE Obj(Append(keys, key), Append(vals, value))

\* the path item with the key changed in every operation
PathItemWithFacet(pathItem, key, value) ==
    IF pathItem.k # "object" THEN pathItem
    ELSE Obj(pathItem.keys,
             [i \in 1..Len(pathItem.keys) |->
                IF pathItem.vals[i].k = "object"
                THEN SetKey(pathItem.vals[i], key, value)
                ELSE pathItem.vals[i]])

\* the document with the key changed in every operation of every path
WithFacet(openApi, key, value) ==
    LET paths == Get(openApi, "paths") IN
    IF paths.k # "object" THEN openApi
    ELSE SetKey(openApi, "paths",
                Obj(paths.keys,
                    [i \in 1..Len(paths.keys) |->
                        PathItemWithFacet(paths.vals[i], key, value)]))

\* what the part of the operations the scan does not read is changed to:
\* nothing, and a content whose schema has every field
Replacements == {Undefined, Json(FreeForm)}

\* the part of an operation the running scan reads, and the part it does not
OwnFacet == IF Mode = "response" THEN "responses" ELSE "requestBody"
OtherFacet == IF Mode = "response" THEN "requestBody" ELSE "responses"

\* the running scan, on another document
ScanAgain(openApi) ==
    IF Mode = "response"
    THEN ExtractResponseFieldPaths(openApi, call.targetFields)
    ELSE ExtractRequestFieldPaths(openApi, call.targetFields)

\* C26: the result of extractResponseFieldPaths is the same whatever the
\* requestBody of the operations is changed to, the result of
\* extractRequestFieldPaths the same whatever their responses are changed to,
\* and a path is listed only if an operation at it has the part the scan reads.
C26_ModesIndependent ==
    IsScan =>
        /\ \A value \in Replacements :
              ret = ScanAgain(WithFacet(call.openApi, OtherFacet, value))
        /\ Returned =>
              \A field \in DOMAIN ret.fieldPaths :
                \A path \in SeqToSet(ret.fieldPaths[field]) :
                    \E method \in {"get", "post", "put", "delete", "patch", "head", "options"} :
                        Truthy(Get(OperationAt(call.openApi, path, method), OwnFacet))

\* a request scan of a document with an operation that has the field email in
\* a response and no request body: the path is not listed for email, while
\* another path is listed for token
C26_Witness ==
    /\ call.op = "extractRequestFieldPaths" /\ Returned
    /\ call.targetFields = <<"email", "token">>
    /\ \E path \in PathsOf(call.openApi), method \in Methods :
        LET operation == OperationAt(call.openApi, path, method) IN
        /\ Yields(operation, "response", "email", call.targetFields)
        /\ ~Truthy(Get(operation, "requestBody"))
        /\ ~InSeq(ret.fieldPaths["email"], path)
    /\ ret.fieldPaths["email"] = <<>>
    /\ ret.fieldPaths["token"] # <<>>
\* C27: the two aggregates of a scan agree: for every target field the union
\* of its group lists is the set of paths of fieldPaths, so that
\* AllPathsWith...Field[f] lists exactly the paths of fieldPaths[f].
C27_AggregatesAgree ==
    Returned =>
        \A field \in DOMAIN ret.fieldPaths :
            /\ UNION {Listed(field, group) : group \in DOMAIN ret.groupFieldPaths[field]}
                    = SeqToSet(ret.fieldPaths[field])
            /\ AllPathsWithField(ret, field) = SeqToSet(ret.fieldPaths[field])
\* every path a scan result lists, under fieldPaths or under a group
ListedPaths(scan) ==
    UNION {SeqToSet(scan.fieldPaths[field])
                \cup UNION {SeqToSet(scan.groupFieldPaths[field][group]) :
                                group \in DOMAIN scan.groupFieldPaths[field]} :
            field \in DOMAIN scan.fieldPaths}

NoFinding(field) ==
    \A path \in PathsOf(call.openApi), method \in Methods :
        ~Yields(OperationAt(call.openApi, path, method), Mode, field, call.targetFields)

\* a call of the finder of generate-types.ts has returned a list
FinderHasReturned ==
    \/ call.op \in {"findFieldsInSchema", "findFieldsInSchemaDebug"} /\ ~ret.raised
    \/ WalkDone

\* C29: the keys of fieldPaths and of groupFieldPaths are exactly the names of
\* the target list, for documents with and without paths; a field with no
\* finding has the empty list and the empty group mapping; and
\* findFieldsInSchema returns no name outside the target list.
C29_KeysAreTargets ==
    /\ (IsScan /\ ~ret.raised) =>
        /\ DOMAIN ret.fieldPaths = SeqToSet(call.targetFields)
        /\ DOMAIN ret.groupFieldPaths = SeqToSet(call.targetFields)
        /\ \A field \in SeqToSet(call.targetFields) :
            NoFinding(field) =>
                /\ field \in DOMAIN ret.fieldPaths /\ ret.fieldPaths[field] = <<>>
                /\ field \in DOMAIN ret.groupFieldPaths
                /\ DOMAIN ret.groupFieldPaths[field] = {}
    /\ FinderHasReturned =>
        \A i \in 1..Len(ret.fields) : InSeq(call.targetFields, ret.fields[i])

\* a scan of a document with paths for two fields has found one of them: the
\* other is a key of both aggregates, with nothing under it
C29_Witness ==
    /\ Returned
    /\ call.targetFields = <<"email", "token">>
    /\ NoFinding("token") /\ ~NoFinding("email")
    /\ ret.fieldPaths["email"] # <<>>
    /\ ret.fieldPaths["token"] = <<>>
    /\ DOMAIN ret.groupFieldPaths["token"] = {}
\* the names findFieldsInSchema returns for the schema and depth of the call
\* and another target list
FoundFor(targetFields) ==
    SeqToSet(FindFieldsInSchema(Val(call.schema), targetFields, call.depth))

\* C30: target fields are searched independently: for every way to split the
\* target list of a call in two, the names returned are those returned for
\* the first part together with those returned for the second.
C30_TargetsIndependent ==
    IsFinderCall =>
        \A n \in 0..Len(call.targetFields) :
            SeqToSet(ret.fields) =
                FoundFor(SubSeq(call.targetFields, 1, n))
                    \cup FoundFor(SubSeq(call.targetFields, n + 1, Len(call.targetFields)))

\* the call for token and email on a schema that declares both has returned
\* both, and each alone is returned when it is the only target
C30_Witness ==
    /\ IsFinderCall
    /\ call.depth = 0
    /\ call.schema = BothSchema
    /\ call.targetFields = <<"token", "email">>
    /\ ret.fields = <<"token", "email">>
    /\ FoundFor(<<"token">>) = {"token"}
    /\ FoundFor(<<"email">>) = {"email"}
====
